---- MODULE Spec2Model ----
(***************************************************************************)
(* Subscription lifecycle of the Tadashi horoscope/tarot bot:              *)
(* the JSON-backed user table (UserDB), the CKassa payment callback        *)
(* (handle_callback), the channel-membership check and the text handlers   *)
(* that gate horoscope/tarot content (start, button_callback, handle_text).*)
(*                                                                         *)
(* Time is counted in whole days: datetime.now() is the variable now, and  *)
(* isoformat()/fromisoformat() of a timestamp is the identity on it (the   *)
(* round trip is exact in Python), so timestamps are kept as integers.     *)
(***************************************************************************)
EXTENDS Integers, Sequences, FiniteSets, TLC

VARIABLES
    users,      \* UserDB.users: key -> record
    disk,       \* the table stored in users_db.json
    now,        \* datetime.now(), in days
    verified,   \* history: the users whose channel membership was confirmed
    last,       \* the last handler run: its kind, its user and its answer
    tasks,      \* the handler coroutines in flight on the event loop
    blocked,    \* the coroutine inside a blocking call, holding the loop
    expected,   \* history: the table the completed mutations add up to
    profile,    \* UserDB.users: key -> the username and last_active fields
    inserted,   \* UserDB.users: its keys in the order of insertion
    user_data,  \* context.user_data of every user
    messages,   \* MessageManager.messages
    msgfile,    \* the content of messages.json
    bc,         \* the handle_broadcast_message coroutine in flight
    boot        \* main(): its position, its attempts and the exit code

\* the state of the administration dialogue
adminvars == <<inserted, user_data, messages, msgfile, bc>>

\* the state that only the specification of one topic follows; the steps of
\* the other specifications leave it alone
topicvars == <<profile, adminvars, boot>>

vars == <<users, disk, now, verified, last, tasks, blocked, expected,
          topicvars>>

\* the state of the event loop, which the steps that run a handler to its
\* end in one piece leave alone
loopvars == <<tasks, blocked, expected>>

(***************************************************************************)
(* Bounds of the model.                                                    *)
(***************************************************************************)
\* the clock stops advancing at this day
MaxTime == 4

\* the day the clock stops at under SpecPay
MaxPayTime == 2

(***************************************************************************)
(* Configuration and constants of the program.                             *)
(***************************************************************************)
\* the user id hard-coded in the content gate of handle_text: 7254288870 in
\* the source, which TLC's 32-bit integers cannot hold; the model's user 3
\* stands for it and keeps its decimal form under str()
BYPASS_ID == 3

\* the Telegram users of the model
UserIds == {1, 2}

\* str(user_id): the key of a user in the table
str(user_id) ==
    CASE user_id = 1 -> "1"
      [] user_id = 2 -> "2"
      [] user_id = BYPASS_ID -> "7254288870"
      [] OTHER -> ToString(user_id)

\* ADMIN_IDS = os.getenv('ADMIN_ID', '').split(','), here ADMIN_ID=1
ADMIN_IDS == {"1"}

\* the JSON null / Python None of a timestamp field
NoTime == -1

\* SUBSCRIPTION_PLANS[plan_id]["days"] and ["price"]
PlanIds == {"week", "month"}

SUBSCRIPTION_PLANS ==
    [week  |-> [price |-> 159, days |-> 7],
     month |-> [price |-> 359, days |-> 30]]

\* the length of the trial period passed by handle_text
TRIAL_DAYS == 3

(***************************************************************************)
(* UserDB.  A database value db is the pair of the in-memory table         *)
(* (self.users) and the content of users_db.json (disk); every operation   *)
(* takes the database and returns the database it leaves.                  *)
(*                                                                         *)
(* A record is kept in two parts: its 'subscription' (users, disk) and its *)
(* 'username' and 'last_active' (profile).  add_user writes both parts in  *)
(* one assignment; no other method writes the second part, which only      *)
(* SpecRegister follows.                                                   *)
(***************************************************************************)
\* the subscription of the record add_user creates for an unseen user
DefaultSubscription ==
    [active |-> FALSE, expires |-> NoTime, type |-> "None",
     start_date |-> NoTime, trial_used |-> FALSE]

\* the JSON null / Python None of the username field
NoName == "None"

\* the username and last_active fields of the record add_user creates at
\* time t
NewProfile(username, t) == [username |-> username, last_active |-> t]

\* add_user writing last_active on every call
add_user_fields_refreshed(pr, user_id, username, t) ==
    [k \in DOMAIN pr \cup {str(user_id)} |->
        IF k = str(user_id)
        THEN NewProfile(IF k \in DOMAIN pr THEN pr[k].username ELSE username,
                        t)
        ELSE pr[k]]

\* UserDB.add_user, the username and last_active fields: written, like the
\* subscription, only when the key is absent
add_user_fields(pr, user_id, username, t) ==
    LET user_id_str == str(user_id)
    IN  IF user_id_str \notin DOMAIN pr
        THEN [k \in DOMAIN pr \cup {user_id_str} |->
                 IF k = user_id_str THEN NewProfile(username, t) ELSE pr[k]]
        ELSE pr

\* UserDB._save: json.dump of the whole table over the file
save(db) == [db EXCEPT !.disk = db.users]

\* add_user without the test "user_id_str not in self.users"
add_user_overwrites(db, user_id) ==
    LET user_id_str == str(user_id)
    IN  save([db EXCEPT !.users =
                 [k \in DOMAIN db.users \cup {user_id_str} |->
                     IF k = user_id_str
                     THEN [subscription |-> DefaultSubscription]
                     ELSE db.users[k]]])

\* UserDB.add_user: creates the default record, and saves, only when the key
\* is absent
add_user(db, user_id) ==
    LET user_id_str == str(user_id)
    IN  IF user_id_str \notin DOMAIN db.users
        THEN save([db EXCEPT !.users =
                      [k \in DOMAIN db.users \cup {user_id_str} |->
                          IF k = user_id_str
                          THEN [subscription |-> DefaultSubscription]
                          ELSE db.users[k]]])
        ELSE db

\* set_subscription writing trial_used = (sub_type == 'trial') with the other
\* fields, so that a paid activation clears it
set_subscription_clears_trial(db, user_id, days, sub_type, t) ==
    LET user_id_str == str(user_id)
        db1 == IF user_id_str \notin DOMAIN db.users
               THEN add_user(db, user_id)
               ELSE db
    IN  save([db1 EXCEPT !.users[user_id_str].subscription =
                 [active |-> TRUE, expires |-> t + days, type |-> sub_type,
                  start_date |-> t, trial_used |-> (sub_type = "trial")]])

\* set_subscription extending a running subscription from its stored expiry
set_subscription_extends(db, user_id, days, sub_type, t) ==
    LET user_id_str == str(user_id)
        db1 == IF user_id_str \notin DOMAIN db.users
               THEN add_user(db, user_id)
               ELSE db
        old == db1.users[user_id_str].subscription
        from == IF old.active /\ old.expires > t THEN old.expires ELSE t
    IN  save([db1 EXCEPT !.users[user_id_str].subscription =
                 [active |-> TRUE, expires |-> from + days, type |-> sub_type,
                  start_date |-> t,
                  trial_used |-> (old.trial_used \/ sub_type = "trial")]])

\* set_subscription that leaves start_date unset
set_subscription_without_start(db, user_id, days, sub_type, t) ==
    LET user_id_str == str(user_id)
        db1 == IF user_id_str \notin DOMAIN db.users
               THEN add_user(db, user_id)
               ELSE db
        sub1 == [db1.users[user_id_str].subscription EXCEPT
                    !.active = TRUE,
                    !.expires = t + days,
                    !.type = sub_type]
        sub2 == IF sub_type = "trial"
                THEN [sub1 EXCEPT !.trial_used = TRUE]
                ELSE sub1
    IN  save([db1 EXCEPT !.users[user_id_str].subscription = sub2])

\* UserDB.set_subscription at time t: overwrites the four activation fields,
\* marks the trial as used for sub_type = "trial", and saves
set_subscription(db, user_id, days, sub_type, t) ==
    LET user_id_str == str(user_id)
        db1 == IF user_id_str \notin DOMAIN db.users
               THEN add_user(db, user_id)
               ELSE db
        expires == t + days
        start_date == t
        sub1 == [db1.users[user_id_str].subscription EXCEPT
                    !.active = TRUE,
                    !.expires = expires,
                    !.type = sub_type,
                    !.start_date = start_date]
        sub2 == IF sub_type = "trial"
                THEN [sub1 EXCEPT !.trial_used = TRUE]
                ELSE sub1
    IN  save([db1 EXCEPT !.users[user_id_str].subscription = sub2])

\* the comparison with >= in place of >
ExpiredAtBoundary(t, expires) == t >= expires

\* the comparison datetime.now() > datetime.fromisoformat(expires)
Expired(t, expires) == t > expires

\* has_active_subscription without the _save() after the flip
has_active_subscription_unsaved(db, user_id, t) ==
    LET user_id_str == str(user_id)
    IN  IF user_id_str \notin DOMAIN db.users
           \/ ~db.users[user_id_str].subscription.active
        THEN [ret |-> FALSE, db |-> db]
        ELSE LET expires == db.users[user_id_str].subscription.expires
             IN  IF expires # NoTime /\ Expired(t, expires)
                 THEN [ret |-> FALSE,
                       db |-> [db EXCEPT
                            !.users[user_id_str].subscription.active = FALSE]]
                 ELSE [ret |-> TRUE, db |-> db]

\* has_active_subscription that registers an unseen user, as can_use_trial
\* does, before it answers
has_active_subscription_registering(db, user_id, t) ==
    LET user_id_str == str(user_id)
        db1 == IF user_id_str \notin DOMAIN db.users
               THEN add_user(db, user_id)
               ELSE db
    IN  IF ~db1.users[user_id_str].subscription.active
        THEN [ret |-> FALSE, db |-> db1]
        ELSE LET expires == db1.users[user_id_str].subscription.expires
             IN  IF expires # NoTime /\ Expired(t, expires)
                 THEN [ret |-> FALSE,
                       db |-> save([db1 EXCEPT
                            !.users[user_id_str].subscription.active = FALSE])]
                 ELSE [ret |-> TRUE, db |-> db1]

\* has_active_subscription that does not read the stored flag and goes by
\* the expiry alone
has_active_subscription_ignoring_flag(db, user_id, t) ==
    LET user_id_str == str(user_id)
    IN  IF user_id_str \notin DOMAIN db.users
        THEN [ret |-> FALSE, db |-> db]
        ELSE LET expires == db.users[user_id_str].subscription.expires
             IN  IF expires # NoTime /\ Expired(t, expires)
                 THEN [ret |-> FALSE,
                       db |-> save([db EXCEPT
                            !.users[user_id_str].subscription.active = FALSE])]
                 ELSE [ret |-> TRUE, db |-> db]

\* UserDB.has_active_subscription at time t: the value returned and the
\* database it leaves (an expired record is flipped to inactive and saved)
has_active_subscription(db, user_id, t) ==
    LET user_id_str == str(user_id)
    IN  IF user_id_str \notin DOMAIN db.users
           \/ ~db.users[user_id_str].subscription.active
        THEN [ret |-> FALSE, db |-> db]
        ELSE LET expires == db.users[user_id_str].subscription.expires
             IN  IF expires # NoTime /\ Expired(t, expires)
                 THEN [ret |-> FALSE,
                       db |-> save([db EXCEPT
                            !.users[user_id_str].subscription.active = FALSE])]
                 ELSE [ret |-> TRUE, db |-> db]

\* UserDB.get_expiry: the stored expiry of a record whose active flag is set
get_expiry(db, user_id) ==
    LET user_id_str == str(user_id)
    IN  IF user_id_str \in DOMAIN db.users
           /\ db.users[user_id_str].subscription.active
        THEN db.users[user_id_str].subscription.expires
        ELSE NoTime

\* UserDB.get_subscription_start
get_subscription_start(db, user_id) ==
    LET user_id_str == str(user_id)
    IN  IF user_id_str \in DOMAIN db.users
           /\ db.users[user_id_str].subscription.active
        THEN db.users[user_id_str].subscription.start_date
        ELSE NoTime

\* can_use_trial that also refuses a user whose subscription is active
can_use_trial_without_subscription(db, user_id) ==
    LET user_id_str == str(user_id)
        db1 == IF user_id_str \notin DOMAIN db.users
               THEN add_user(db, user_id)
               ELSE db
    IN  [ret |-> /\ ~db1.users[user_id_str].subscription.trial_used
                 /\ ~db1.users[user_id_str].subscription.active,
         db |-> db1]

\* can_use_trial that does not read trial_used
can_use_trial_always(db, user_id) ==
    LET user_id_str == str(user_id)
        db1 == IF user_id_str \notin DOMAIN db.users
               THEN add_user(db, user_id)
               ELSE db
    IN  [ret |-> TRUE, db |-> db1]

\* UserDB.can_use_trial: registers an unseen user, then reads trial_used
can_use_trial(db, user_id) ==
    LET user_id_str == str(user_id)
        db1 == IF user_id_str \notin DOMAIN db.users
               THEN add_user(db, user_id)
               ELSE db
    IN  [ret |-> ~db1.users[user_id_str].subscription.trial_used, db |-> db1]

\* get_main_menu: calls has_active_subscription, which may flip the record
get_main_menu(db, user_id, t) == has_active_subscription(db, user_id, t).db

(***************************************************************************)
(* check_channel_subscription                                              *)
(***************************************************************************)
\* CHANNELS: the two configured channels, in list order
CHANNELS == <<"CHANNEL1_ID", "CHANNEL2_ID">>

\* what bot.get_chat_member can yield for one channel: a member status, or
\* an exception ("error")
ChatMemberOutcomes ==
    {"member", "administrator", "creator", "restricted", "left", "kicked",
     "error"}

\* the statuses the check accepts
MemberStatuses == {"member", "administrator", "creator"}

\* the loop with an except branch that goes on to the next channel
RECURSIVE check_channels_skipping_errors(_, _)
check_channels_skipping_errors(i, outcome) ==
    IF i > Len(CHANNELS)
    THEN [ret |-> TRUE, queries |-> i - 1]
    ELSE IF outcome[i] = "error"
         THEN check_channels_skipping_errors(i + 1, outcome)
         ELSE IF outcome[i] \notin MemberStatuses
              THEN [ret |-> FALSE, queries |-> i]
              ELSE check_channels_skipping_errors(i + 1, outcome)

\* the for loop of check_channel_subscription from channel i on; queries
\* counts the get_chat_member calls made
RECURSIVE check_channels_from(_, _)
check_channels_from(i, outcome) ==
    IF i > Len(CHANNELS)
    THEN [ret |-> TRUE, queries |-> i - 1]
    ELSE IF outcome[i] = "error"
         THEN [ret |-> FALSE, queries |-> i]
         ELSE IF outcome[i] \notin MemberStatuses
              THEN [ret |-> FALSE, queries |-> i]
              ELSE check_channels_from(i + 1, outcome)

\* check_channel_subscription(user_id, context), outcome[i] being what the
\* query of channel i yields if it is made
check_channel_subscription(user_id, outcome) ==
    IF str(user_id) \in ADMIN_IDS
    THEN [ret |-> TRUE, queries |-> 0]
    ELSE check_channels_from(1, outcome)

(***************************************************************************)
(* send_subscription_notification and handle_callback                      *)
(***************************************************************************)
\* a field that data.get(...) does not find (None)
Missing == "<missing>"

\* no field counts as absent
FalsyNever(v) == FALSE

\* Python truthiness of a callback field: None and "" are false
Falsy(v) == v \in {Missing, ""}

\* the values the callback fields take in the model
CallbackUserIds == {Missing, "1", "02", "abc"}
CallbackStates == {Missing, "PAYED", "payed", "FAILED"}
CallbackAmounts == {Missing, "15900", "35900", "20000", "abc"}

\* str.upper() on the states of the model
upper(status) ==
    CASE status = "payed" -> "PAYED"
      [] OTHER -> status

\* the strings float() accepts, and its value on them (minor units)
FloatStrings == {"15900", "35900", "20000"}

float(amount) ==
    CASE amount = "15900" -> 15900
      [] amount = "35900" -> 35900
      [] amount = "20000" -> 20000

\* the strings int() accepts, and its value on them
IntStrings == {"1", "02"}

int(user_id) ==
    CASE user_id = "1" -> 1
      [] user_id = "02" -> 2

\* the comparison without the division by 100
amount_equals_price(amount, price) == float(amount) = price

\* the comparison with >= in place of ==
amount_rub_at_least(amount, price) == float(amount) >= price * 100

\* amount_rub == price, for amount_rub = float(amount) / 100
amount_rub_equals(amount, price) == float(amount) = price * 100

\* no test of the status
payment_confirmed_always(status) == TRUE

\* the test status.upper() != "PAYED", negated
payment_confirmed(status) == upper(status) = "PAYED"

Response(status, text) == [status |-> status, text |-> text]

\* send_subscription_notification: get_main_menu is evaluated inside the try
\* block, before bot.send_message; a failure of the send is caught and logged
send_subscription_notification(db, user_id, t, send_ok) ==
    get_main_menu(db, user_id, t)

\* the await of bot.send_message without the try block around it: a failed
\* send raises into handle_callback
send_message_unguarded(send_ok) == [raised |-> ~send_ok, sent |-> send_ok]

\* send_subscription_notification from the await of bot.send_message on: a
\* failed send is caught and logged, nothing is raised to the caller
send_message_guarded(send_ok) == [raised |-> FALSE, sent |-> send_ok]

\* handle_callback after send_subscription_notification: the response, which
\* is that of the except Exception clause when the notification raised
callback_tail(n) ==
    IF n.raised THEN Response(500, "Server error") ELSE Response(200, "OK")

\* handle_callback on the JSON body data at time t: the response and the
\* database it leaves
handle_callback(db, data, t, send_ok) ==
    LET user_id == data.user_id
        status == data.state
        amount == data.amount
    IN  IF Falsy(user_id)
        THEN [resp |-> Response(400, "user_id is required"), db |-> db]
        ELSE IF Falsy(status)
        THEN [resp |-> Response(400, "status is required"), db |-> db]
        ELSE IF Falsy(amount)
        THEN [resp |-> Response(400, "amount is required"), db |-> db]
        ELSE IF ~payment_confirmed(status)
        THEN [resp |-> Response(200, "Payment not confirmed"), db |-> db]
        ELSE IF amount \notin FloatStrings
        THEN [resp |-> Response(500, "Server error"), db |-> db]
        ELSE IF ~amount_rub_equals(amount, SUBSCRIPTION_PLANS["month"].price)
                /\ ~amount_rub_equals(amount, SUBSCRIPTION_PLANS["week"].price)
        THEN [resp |-> Response(400, "Unknown payment amount"), db |-> db]
        ELSE IF user_id \notin IntStrings
        THEN [resp |-> Response(500, "Server error"), db |-> db]
        ELSE LET plan_id ==
                     IF amount_rub_equals(amount, SUBSCRIPTION_PLANS["month"].price)
                     THEN "month" ELSE "week"
                 days == SUBSCRIPTION_PLANS[plan_id].days
                 db1 == set_subscription(db, int(user_id), days, "paid", t)
                 db2 == send_subscription_notification(db1, int(user_id), t, send_ok)
             IN  [resp |-> Response(200, "OK"), db |-> db2]

(***************************************************************************)
(* The Telegram handlers: start, button_callback, handle_text              *)
(***************************************************************************)
\* every assignment of a get_chat_member outcome to the channels
ChannelOutcomes == [1..Len(CHANNELS) -> ChatMemberOutcomes]

\* the assignments the handlers are run with: a member of both channels, a
\* user who left the second one, a failing query
HandlerOutcomes ==
    {<<"member", "member">>, <<"creator", "left">>, <<"error", "member">>}

\* start: the channel check, then registration and the main menu
start(db, user_id, outcome, t) ==
    IF ~check_channel_subscription(user_id, outcome).ret
    THEN [reply |-> "join_channels", db |-> db, checked |-> FALSE]
    ELSE [reply |-> "start_message",
          db |-> get_main_menu(add_user(db, user_id), user_id, t),
          checked |-> TRUE]

\* button_callback with query.data = "check_sub"
button_callback(db, user_id, outcome, t) ==
    IF check_channel_subscription(user_id, outcome).ret
    THEN [reply |-> "confirmed",
          db |-> get_main_menu(add_user(db, user_id), user_id, t),
          checked |-> TRUE]
    ELSE [reply |-> "not_confirmed", db |-> db, checked |-> FALSE]

\* the texts of the model, by the branch of handle_text they select:
\*   back        "◶ Назад"
\*   horoscope   "🌟 Гороскоп на сегодня"
\*   tarot       "🎴 Карта Таро дня"
\*   sign        a zodiac button, "<emoji> <Sign>"
\*   trial       "🎁 Активировать пробный период (3 дня)"
\*   plan_week   "💎 7 дней за 159р (...)"
\*   plan_month  "💎 30 дней за 359р (...)"
\*   subscribe   "💎 Оформить подписку" / "💎 Подписка активна (...)"
\*   other       a text no branch matches
Texts ==
    {"back", "horoscope", "tarot", "sign", "trial", "plan_week",
     "plan_month", "subscribe", "other"}

\* the texts that ask for horoscope or tarot content
ContentTexts == {"horoscope", "tarot", "sign"}

\* the replies that carry horoscope or tarot content
ContentReplies == {"sign_keyboard", "tarot_card", "horoscope_text"}

\* the gate of handle_text in front of the content:
\* user_id != 7254288870 and not db.has_active_subscription(user_id)
\* (has_active_subscription is not called for the hard-coded id)
content_gate(db, user_id, t) ==
    IF user_id # BYPASS_ID
    THEN LET h == has_active_subscription(db, user_id, t)
         IN  [denied |-> ~h.ret, db |-> h.db]
    ELSE [denied |-> FALSE, db |-> db]

\* the plan buttons activating the plan at once, without a payment
create_payment_reply_activating(db, user_id, text, t) ==
    LET plan_id == IF text = "plan_week" THEN "week" ELSE "month"
    IN  [reply |-> "payment_link",
         db |-> set_subscription(db, user_id, SUBSCRIPTION_PLANS[plan_id].days,
                                 "paid", t),
         checked |-> FALSE]

\* the plan buttons of handle_text: ckassa.create_payment and the reply
\* with the payment link; the table is not touched
create_payment_reply(db, user_id, text, t) ==
    [reply |-> "payment_link", db |-> db, checked |-> FALSE]

\* handle_text for a user in no modal sub-state: the reply and the database
handle_text(db, user_id, text, outcome, t) ==
    IF text = "back"
    THEN start(db, user_id, outcome, t)
    ELSE IF text \in ContentTexts
    THEN LET g == content_gate(db, user_id, t)
         IN  IF g.denied
             THEN [reply |-> "subscribers_only",
                   db |-> can_use_trial(g.db, user_id).db,
                   checked |-> FALSE]
             ELSE [reply |-> CASE text = "horoscope" -> "sign_keyboard"
                               [] text = "tarot" -> "tarot_card"
                               [] text = "sign" -> "horoscope_text",
                   db |-> g.db,
                   checked |-> FALSE]
    ELSE IF text = "trial"
    THEN LET c == can_use_trial(db, user_id)
         IN  IF c.ret
             THEN LET db1 == set_subscription(c.db, user_id, TRIAL_DAYS, "trial", t)
                      db2 == send_subscription_notification(db1, user_id, t, TRUE)
                  IN  [reply |-> "trial_activated",
                       db |-> get_main_menu(db2, user_id, t),
                       checked |-> FALSE]
             ELSE [reply |-> "trial_already_used", db |-> c.db, checked |-> FALSE]
    ELSE IF text \in {"plan_week", "plan_month"}
    THEN create_payment_reply(db, user_id, text, t)
    ELSE IF text = "subscribe"
    THEN [reply |-> "plans", db |-> can_use_trial(db, user_id).db, checked |-> FALSE]
    ELSE [reply |-> "none", db |-> db, checked |-> FALSE]

(***************************************************************************)
(* HoroscopeParser.get_horoscope (parser.py).  A string the method returns *)
(* is a record: kind names the literal returned, or "page_text" for the    *)
(* text of a page element, which sel (the selector that found it) and len  *)
(* (its length after strip()) identify.                                    *)
(***************************************************************************)
\* keys of self.zodiac_signs (two of the twelve)
zodiac_signs == {"oven", "ryby"}

\* a sign argument that is not a str (None)
NoSign == "<None>"

\* the sign arguments of the model: a key, a key in title case, a word that
\* is no key, None
Signs == {"oven", "Oven", "zmeya", NoSign}

\* str.lower() on the signs of the model
lower(sign) ==
    CASE sign = "Oven" -> "oven"
      [] OTHER -> sign

\* range(3): the attempts of the retry loops
ATTEMPTS == 3

\* what one attempt's requests.get / raise_for_status / BeautifulSoup does:
\* it succeeds, it raises requests.RequestException (connection error,
\* timeout, HTTP error status), or it raises another exception
AttemptOutcomes == {"ok", "RequestException", "Exception"}

\* the outcome each attempt has if it is made
HttpOutcomes == [1..ATTEMPTS -> AttemptOutcomes]

\* possible_selectors, in list order
possible_selectors ==
    <<"p[class*=_5yHoW]", "p[class*=AjIPq]", "p[class*=horoscope-text]",
      "p[class*=article-text]", "div[class*=content] p", "article p",
      "div[class*=text-block] p", "p">>

\* soup.select_one(selector) finding no element (None)
NoMatch == -1

\* the quality gate: len(horoscope_p.text.strip()) > 50
MIN_TEXT_LENGTH == 50

\* the literals get_horoscope returns
Literal(kind) == [kind |-> kind, sel |-> 0, len |-> 0]

\* horoscope_p.text.strip() of the element selector sel found
PageText(sel, len) == [kind |-> "page_text", sel |-> sel, len |-> len]

\* the test "Извините" in horoscope (the page texts of the model do not
\* contain the word)
ContainsSorry(ret) ==
    ret.kind \in {"sorry_network", "sorry_not_found", "sorry_unexpected"}

\* the selector loop: the first selector, in list order, whose first match
\* has a non-empty stripped text; after the loop horoscope_p is the match of
\* the selector it stopped at (the last one when none was accepted).  page[i]
\* is the stripped length of the first match of selector i, or NoMatch
RECURSIVE selector_loop(_, _)
selector_loop(i, page) ==
    IF page[i] # NoMatch /\ page[i] > 0
    THEN i
    ELSE IF i = Len(possible_selectors)
         THEN i
         ELSE selector_loop(i + 1, page)

\* the body of one successful attempt: the text returned, or no text
parse_page(page) ==
    LET sel == selector_loop(1, page)
    IN  IF page[sel] # NoMatch /\ page[sel] > 0 /\ page[sel] > MIN_TEXT_LENGTH
        THEN PageText(sel, page[sel])
        ELSE Literal("no_text")

\* a result of the method: raised is TRUE when an exception leaves it; gets
\* counts the requests.get calls made and sleeps the time.sleep(5) calls
Result(raised, ret, gets, sleeps) ==
    [raised |-> raised, ret |-> ret, gets |-> gets, sleeps |-> sleeps]

\* the retry loop going on to the next attempt when the page has no text
RECURSIVE horoscope_attempts_retry_no_text(_, _, _)
horoscope_attempts_retry_no_text(attempt, http, page) ==
    IF attempt >= ATTEMPTS
    THEN Result(FALSE, Literal("sorry_not_found"), attempt, attempt)
    ELSE CASE http[attempt + 1] = "ok" ->
                 IF parse_page(page).kind = "page_text"
                 THEN Result(FALSE, parse_page(page), attempt + 1, attempt)
                 ELSE horoscope_attempts_retry_no_text(attempt + 1, http, page)
           [] http[attempt + 1] = "RequestException" ->
                 IF attempt < 2
                 THEN horoscope_attempts_retry_no_text(attempt + 1, http, page)
                 ELSE Result(FALSE, Literal("sorry_network"), attempt + 1, attempt)
           [] OTHER -> Result(TRUE, Literal("Exception"), attempt + 1, attempt)

\* the loop "for attempt in range(3)" of get_horoscope from attempt on
\* (attempts count from 0), with the statements after it
RECURSIVE horoscope_attempts(_, _, _)
horoscope_attempts(attempt, http, page) ==
    IF attempt >= ATTEMPTS
    THEN Result(FALSE, Literal("sorry_not_found"), attempt, attempt)
    ELSE CASE http[attempt + 1] = "ok" ->
                 IF parse_page(page).kind = "page_text"
                 THEN Result(FALSE, parse_page(page), attempt + 1, attempt)
                 ELSE Result(FALSE, Literal("sorry_not_found"), attempt + 1, attempt)
           [] http[attempt + 1] = "RequestException" ->
                 IF attempt < 2
                 THEN horoscope_attempts(attempt + 1, http, page)
                 ELSE Result(FALSE, Literal("sorry_network"), attempt + 1, attempt)
           [] OTHER -> Result(TRUE, Literal("Exception"), attempt + 1, attempt)

\* the statements inside the outer try of get_horoscope
get_horoscope_body(sign, http, page) ==
    IF sign = NoSign
    THEN Result(TRUE, Literal("AttributeError"), 0, 0)
    ELSE IF lower(sign) \notin zodiac_signs
         THEN Result(FALSE, Literal("invalid_sign"), 0, 0)
         ELSE horoscope_attempts(0, http, page)

\* get_horoscope without the outer "except Exception"
get_horoscope_uncaught(sign, http, page) == get_horoscope_body(sign, http, page)

\* HoroscopeParser.get_horoscope: the outer handler turns every exception
\* into the "unexpected error" text
get_horoscope(sign, http, page) ==
    LET r == get_horoscope_body(sign, http, page)
    IN  IF r.raised
        THEN Result(FALSE, Literal("sorry_unexpected"), r.gets, r.sleeps)
        ELSE r

\* handle_text, lines 675-698: the answer to a zodiac button, given what
\* get_horoscope did
horoscope_reply(r) ==
    IF r.raised
    THEN "horoscope_failed"
    ELSE IF ~ContainsSorry(r.ret)
         THEN "horoscope_text"
         ELSE "horoscope_not_found"

(***************************************************************************)
(* HoroscopeParser.get_tarot (parser.py) and the tarot branch of           *)
(* handle_text.  Card titles are written in Latin letters.                 *)
(***************************************************************************)
\* soup.select_one('h2.h7yAL.xAIf2') finding no element
NoTitle == "<no title>"

\* the stripped texts of the title element in the model: with the
\* "Карта Таро сегодня: " prefix, a two-word card name, a name no file is
\* named after
CardTitles ==
    {NoTitle, "Karta Taro segodnya: Shut", "Tuz Kubkov", "Belaya Karta"}

\* card_title, then card_name: the part after ":" (the model's titles have
\* no "ё" to replace)
card_title_of(title) == IF title = NoTitle THEN "Karta dnya" ELSE title

card_name_of(card_title) ==
    CASE card_title = "Karta Taro segodnya: Shut" -> "Shut"
      [] OTHER -> card_title

\* file_name_base = card_name.lower().replace(" ", "_")
file_name_base_of(card_name) ==
    CASE card_name = "Shut" -> "shut"
      [] card_name = "Tuz Kubkov" -> "tuz_kubkov"
      [] card_name = "Belaya Karta" -> "belaya_karta"
      [] card_name = "Karta dnya" -> "karta_dnya"

\* file_name_corrections: its keys are card names written with spaces (of
\* the model's cards, "shut" and "tuz kubkov")
file_name_corrections ==
    [k \in {"shut", "tuz kubkov"} |->
        CASE k = "shut" -> "shut.png"
          [] k = "tuz kubkov" -> "tuz_kubkov.png"]

\* f"{file_name_base}.png"
png(file_name_base) ==
    CASE file_name_base = "shut" -> "shut.png"
      [] file_name_base = "tuz_kubkov" -> "tuz_kubkov.png"
      [] file_name_base = "belaya_karta" -> "belaya_karta.png"
      [] file_name_base = "karta_dnya" -> "karta_dnya.png"

\* file_name_corrections.get(file_name_base, f"{file_name_base}.png")
file_name_of(file_name_base) ==
    IF file_name_base \in DOMAIN file_name_corrections
    THEN file_name_corrections[file_name_base]
    ELSE png(file_name_base)

\* an image_path of None
NoPath == "<None>"

\* the tuple get_tarot returns, with the requests.get calls it made
TarotResult(title, desc, image_path, gets) ==
    [title |-> title, desc |-> desc, image_path |-> image_path, gets |-> gets]

\* the statements after the retry loop: the title, the description (present
\* or not in the page) and the image path, which is returned whether or not
\* os.path.exists(image_path) holds
tarot_parse(page, gets) ==
    LET card_title == card_title_of(page.title)
        file_name == file_name_of(file_name_base_of(card_name_of(card_title)))
    IN  TarotResult(card_title,
                    IF page.description THEN "description" ELSE "no_description",
                    file_name, gets)

\* the retry loop of get_tarot from attempt on, with what follows it
RECURSIVE tarot_attempts(_, _, _)
tarot_attempts(attempt, http, page) ==
    IF attempt >= ATTEMPTS
    THEN tarot_parse(page, attempt)
    ELSE CASE http[attempt + 1] = "ok" -> tarot_parse(page, attempt + 1)
           [] http[attempt + 1] = "RequestException" ->
                 IF attempt < 2
                 THEN tarot_attempts(attempt + 1, http, page)
                 ELSE TarotResult("Karta dnya", "no_connection", NoPath,
                                  attempt + 1)
           [] OTHER -> TarotResult("Karta dnya", "no_description", NoPath,
                                   attempt + 1)

\* HoroscopeParser.get_tarot
get_tarot(http, page) == tarot_attempts(0, http, page)

\* the pages of the model: a title element or none, a description or none
TarotPages == [title : CardTitles, description : BOOLEAN]

\* handle_text, lines 632-657: the answer to the tarot button; exists tells
\* whether the file at image_path is there (open() raises when it is not,
\* and the handler answers with its error text)
tarot_reply(r, exists) ==
    IF r.image_path # NoPath
    THEN IF exists THEN "tarot_photo" ELSE "tarot_failed"
    ELSE "tarot_text_only"

(***************************************************************************)
(* The state machine                                                       *)
(***************************************************************************)
\* the database the handlers see in the current state
DB == [users |-> users, disk |-> disk]

\* UserDB.__init__ with no users_db.json: _load saves the empty table
EmptyTable == [k \in {} |-> [subscription |-> DefaultSubscription]]

\* context.user_data of a user who has sent nothing yet
NoUserData == [awaiting_broadcast |-> FALSE, editing_message |-> "None"]

\* MessageManager.__init__ with no messages.json: no key is set
NoMessages == [key \in {} |-> ""]

\* no broadcast has been started
NoBroadcast ==
    [pc |-> "idle", users |-> << >>, i |-> 0, success_count |-> 0,
     fail_count |-> 0, log |-> << >>, raised |-> FALSE, owner |-> 0]

\* the exit code of a process that has not exited
NoExit == -1

\* the process before main() is entered
NotStarted ==
    [pc |-> "init", attempt |-> 0, polls |-> << >>, webhook |-> "unchecked",
     token |-> TRUE, exit_code |-> NoExit]

\* the username and last_active fields of the empty table
NoProfiles == [k \in {} |-> NewProfile(NoName, 0)]

\* the coroutines of the model: the handler of an update of user 1, of an
\* update of user 2, of a second update of user 1 in flight with the first
\* (used by SpecTrial only), and the handler of a POST /callback
TaskSlots == {"1", "2", "1b", "callback"}

\* no coroutine in a slot, and no coroutine blocking the loop
Idle == [pc |-> "idle"]

NoTask == "<none>"

Init ==
    /\ users = EmptyTable
    /\ disk = EmptyTable
    /\ now = 0
    /\ verified = {}
    /\ last = [op |-> "init"]
    /\ tasks = [slot \in TaskSlots |-> Idle]
    /\ blocked = NoTask
    /\ expected = EmptyTable
    /\ profile = NoProfiles
    /\ inserted = << >>
    /\ user_data = [user_id \in UserIds |-> NoUserData]
    /\ messages = NoMessages
    /\ msgfile = NoMessages
    /\ bc = NoBroadcast
    /\ boot = NotStarted

\* a day passes between two handler runs, up to day bound
TickTo(bound) ==
    /\ now < bound
    /\ now' = now + 1
    /\ last' = [op |-> "tick"]
    /\ UNCHANGED <<users, disk, verified>>
    /\ UNCHANGED loopvars
    /\ UNCHANGED topicvars

Tick == TickTo(MaxTime)

\* POST /callback with the body data
Callback(data, send_ok) ==
    LET r == handle_callback(DB, data, now, send_ok)
    IN  /\ users' = r.db.users
        /\ disk' = r.db.disk
        /\ last' = [op |-> "handle_callback", data |-> data, resp |-> r.resp]
        /\ UNCHANGED <<now, verified>>
        /\ UNCHANGED loopvars
        /\ UNCHANGED topicvars

\* the /start command of user_id
StartCommand(user_id, outcome) ==
    LET r == start(DB, user_id, outcome, now)
    IN  /\ users' = r.db.users
        /\ disk' = r.db.disk
        /\ verified' = IF r.checked THEN verified \cup {str(user_id)} ELSE verified
        /\ last' = [op |-> "start", u |-> str(user_id), reply |-> r.reply]
        /\ UNCHANGED now
        /\ UNCHANGED loopvars
        /\ UNCHANGED topicvars

\* the "check_sub" inline button pressed by user_id
ButtonCallback(user_id, outcome) ==
    LET r == button_callback(DB, user_id, outcome, now)
    IN  /\ users' = r.db.users
        /\ disk' = r.db.disk
        /\ verified' = IF r.checked THEN verified \cup {str(user_id)} ELSE verified
        /\ last' = [op |-> "button_callback", u |-> str(user_id), reply |-> r.reply]
        /\ UNCHANGED now
        /\ UNCHANGED loopvars
        /\ UNCHANGED topicvars

\* a text message of user_id
TextMessage(user_id, text, outcome) ==
    LET r == handle_text(DB, user_id, text, outcome, now)
    IN  /\ users' = r.db.users
        /\ disk' = r.db.disk
        /\ verified' = IF r.checked THEN verified \cup {str(user_id)} ELSE verified
        /\ last' = [op |-> "handle_text", u |-> str(user_id), reply |-> r.reply]
        /\ UNCHANGED now
        /\ UNCHANGED loopvars
        /\ UNCHANGED topicvars

(***************************************************************************)
(* Spec: the bot.  Its steps are the handlers the application registers    *)
(* (main) and the clock.                                                   *)
(***************************************************************************)
\* the callback bodies the bot is run with here: a payment of the month plan
\* for user 1, of the week plan for user 2, and a rejected body
BotBodies ==
    {[user_id |-> "1", state |-> "PAYED", amount |-> "35900"],
     [user_id |-> "02", state |-> "PAYED", amount |-> "15900"],
     [user_id |-> "02", state |-> "PAYED", amount |-> "20000"]}

\* "back" is the one text whose handling queries the channels; the user with
\* the hard-coded id sends the content requests only
Next ==
    \/ Tick
    \/ \E data \in BotBodies : Callback(data, TRUE)
    \/ \E user_id \in UserIds, outcome \in HandlerOutcomes :
          StartCommand(user_id, outcome)
    \/ \E user_id \in UserIds, outcome \in HandlerOutcomes :
          ButtonCallback(user_id, outcome)
    \/ \E user_id \in UserIds, outcome \in HandlerOutcomes :
          TextMessage(user_id, "back", outcome)
    \/ \E user_id \in UserIds, text \in Texts \ {"back"} :
          TextMessage(user_id, text, <<"member", "member">>)
    \/ \E text \in ContentTexts :
          TextMessage(BYPASS_ID, text, <<"member", "member">>)

Spec == Init /\ [][Next]_vars

(***************************************************************************)
(* SpecPay: the payment endpoint under every callback body of the model,   *)
(* beside registrations and the clock.                                     *)
(***************************************************************************)
CallbackBodies ==
    [user_id : CallbackUserIds, state : CallbackStates, amount : CallbackAmounts]

\* the bodies of a confirmed payment of a catalog amount
PaidBodies ==
    [user_id : IntStrings, state : {"PAYED", "payed"}, amount : {"15900", "35900"}]

NextPay ==
    \/ TickTo(MaxPayTime)
    \/ \E data \in CallbackBodies : Callback(data, TRUE)
    \/ \E data \in PaidBodies : Callback(data, FALSE)
    \/ \E user_id \in UserIds : StartCommand(user_id, <<"member", "member">>)

SpecPay == Init /\ [][NextPay]_vars

(***************************************************************************)
(* SpecDB: UserDB under any client.  Its steps are single calls of the     *)
(* public methods, in any order, payment callbacks and the clock; the      *)
(* handlers reach the table through these methods only.                    *)
(***************************************************************************)
\* the (days, sub_type) pairs set_subscription is called with
Activations ==
    {<<TRIAL_DAYS, "trial">>,
     <<SUBSCRIPTION_PLANS["week"].days, "paid">>,
     <<SUBSCRIPTION_PLANS["month"].days, "paid">>}

\* the stored expiry of user_id before a call, NoTime without a record
StoredExpiry(us, user_id) ==
    IF str(user_id) \in DOMAIN us
    THEN us[str(user_id)].subscription.expires
    ELSE NoTime

\* the stored active flag of user_id before a call, FALSE without a record
StoredActive(us, user_id) ==
    str(user_id) \in DOMAIN us /\ us[str(user_id)].subscription.active

CallAddUser(user_id) ==
    LET db1 == add_user(DB, user_id)
    IN  /\ users' = db1.users
        /\ disk' = db1.disk
        /\ last' = [op |-> "add_user", u |-> str(user_id)]
        /\ UNCHANGED <<now, verified>>
        /\ UNCHANGED loopvars
        /\ UNCHANGED topicvars

CallSetSubscription(user_id, days, sub_type) ==
    LET db1 == set_subscription(DB, user_id, days, sub_type, now)
    IN  /\ users' = db1.users
        /\ disk' = db1.disk
        /\ last' = [op |-> "set_subscription", u |-> str(user_id),
                    days |-> days, sub_type |-> sub_type,
                    prev_expires |-> StoredExpiry(users, user_id)]
        /\ UNCHANGED <<now, verified>>
        /\ UNCHANGED loopvars
        /\ UNCHANGED topicvars

CallHasActiveSubscription(user_id) ==
    LET r == has_active_subscription(DB, user_id, now)
    IN  /\ users' = r.db.users
        /\ disk' = r.db.disk
        /\ last' = [op |-> "has_active_subscription", u |-> str(user_id),
                    ret |-> r.ret,
                    was_active |-> StoredActive(users, user_id)]
        /\ UNCHANGED <<now, verified>>
        /\ UNCHANGED loopvars
        /\ UNCHANGED topicvars

CallGetExpiry(user_id) ==
    /\ last' = [op |-> "get_expiry", u |-> str(user_id),
                ret |-> get_expiry(DB, user_id)]
    /\ UNCHANGED <<users, disk, now, verified>>
    /\ UNCHANGED loopvars
    /\ UNCHANGED topicvars

CallGetSubscriptionStart(user_id) ==
    /\ last' = [op |-> "get_subscription_start", u |-> str(user_id),
                ret |-> get_subscription_start(DB, user_id)]
    /\ UNCHANGED <<users, disk, now, verified>>
    /\ UNCHANGED loopvars
    /\ UNCHANGED topicvars

CallCanUseTrial(user_id) ==
    LET r == can_use_trial(DB, user_id)
    IN  /\ users' = r.db.users
        /\ disk' = r.db.disk
        /\ last' = [op |-> "can_use_trial", u |-> str(user_id), ret |-> r.ret]
        /\ UNCHANGED <<now, verified>>
        /\ UNCHANGED loopvars
        /\ UNCHANGED topicvars

NextDB ==
    \/ Tick
    \/ \E user_id \in UserIds : CallAddUser(user_id)
    \/ \E user_id \in UserIds, a \in Activations :
          CallSetSubscription(user_id, a[1], a[2])
    \/ \E user_id \in UserIds : CallHasActiveSubscription(user_id)
    \/ \E user_id \in UserIds : CallGetExpiry(user_id)
    \/ \E user_id \in UserIds : CallGetSubscriptionStart(user_id)
    \/ \E user_id \in UserIds : CallCanUseTrial(user_id)
    \/ \E data \in BotBodies : Callback(data, TRUE)

SpecDB == Init /\ [][NextDB]_vars

(***************************************************************************)
(* SpecChannel: check_channel_subscription on every user and every         *)
(* assignment of query outcomes to the channels.                           *)
(***************************************************************************)
CallCheckChannelSubscription(user_id, outcome) ==
    /\ last' = [op |-> "check_channel_subscription", user_id |-> user_id,
                outcome |-> outcome,
                result |-> check_channel_subscription(user_id, outcome)]
    /\ UNCHANGED <<users, disk, now, verified>>
    /\ UNCHANGED loopvars
    /\ UNCHANGED topicvars

NextChannel ==
    \E user_id \in UserIds \cup {BYPASS_ID}, outcome \in ChannelOutcomes :
        CallCheckChannelSubscription(user_id, outcome)

SpecChannel == Init /\ [][NextChannel]_vars

(***************************************************************************)
(* SpecExpiry: one user's record over a clock that runs past the end of a  *)
(* 7-day subscription, under the calls that activate and read it.          *)
(***************************************************************************)
\* the day the clock stops at under SpecExpiry
MaxExpiryTime == 8

\* the user of SpecExpiry
ExpiryUsers == {2}

\* the (days, sub_type) pairs of the trial and of the 7-day plan
ShortActivations ==
    {<<TRIAL_DAYS, "trial">>, <<SUBSCRIPTION_PLANS["week"].days, "paid">>}

NextExpiry ==
    \/ TickTo(MaxExpiryTime)
    \/ \E user_id \in ExpiryUsers, a \in ShortActivations :
          CallSetSubscription(user_id, a[1], a[2])
    \/ \E user_id \in ExpiryUsers : CallHasActiveSubscription(user_id)
    \/ \E user_id \in ExpiryUsers : CallGetExpiry(user_id)
    \/ \E user_id \in ExpiryUsers : CallGetSubscriptionStart(user_id)

SpecExpiry == Init /\ [][NextExpiry]_vars

(***************************************************************************)
(* SpecReplay: the payment endpoint under repeated deliveries of confirmed *)
(* payments, with the subscription found by each delivery kept in last.    *)
(***************************************************************************)
\* the day the clock stops at under SpecReplay
MaxReplayTime == 3

\* the bodies of the gateway's confirmed catalog payments
ReplayBodies ==
    [user_id : IntStrings, state : {"PAYED"}, amount : {"15900", "35900"}]

\* the stored subscription of the user a body names, before a delivery
StoredSubscription(us, user_id) ==
    IF str(user_id) \in DOMAIN us
    THEN us[str(user_id)].subscription
    ELSE DefaultSubscription

\* POST /callback with a body of ReplayBodies
Delivery(data) ==
    LET r == handle_callback(DB, data, now, TRUE)
    IN  /\ users' = r.db.users
        /\ disk' = r.db.disk
        /\ last' = [op |-> "handle_callback", data |-> data, resp |-> r.resp,
                    before |-> StoredSubscription(users, int(data.user_id))]
        /\ UNCHANGED <<now, verified>>
        /\ UNCHANGED loopvars
        /\ UNCHANGED topicvars

NextReplay ==
    \/ TickTo(MaxReplayTime)
    \/ \E data \in ReplayBodies : Delivery(data)
    \/ \E user_id \in UserIds : CallHasActiveSubscription(user_id)

SpecReplay == Init /\ [][NextReplay]_vars

(***************************************************************************)
(* SpecFetch: the parser's two methods, and the answers handle_text builds *)
(* from them, on every input of the model.                                 *)
(***************************************************************************)
\* the stripped lengths of a selector's first match
TextLengths == {0, 20, MIN_TEXT_LENGTH, MIN_TEXT_LENGTH + 1}

\* the page in which selector i matches a text of length a and selector j
\* one of length b, the other selectors matching nothing
PageWith(i, a, j, b) ==
    [sel \in 1..Len(possible_selectors) |->
        IF sel = i THEN a ELSE IF sel = j THEN b ELSE NoMatch]

\* the pages in which at most two selectors find an element
Pages ==
    {PageWith(i, a, j, b) :
        i \in 1..Len(possible_selectors), j \in 1..Len(possible_selectors),
        a \in TextLengths \cup {NoMatch}, b \in TextLengths \cup {NoMatch}}

\* an empty page, a page with a horoscope under the first selector, a page
\* with a short text under the first selector and a long one under the last
FewPages ==
    {PageWith(1, NoMatch, 1, NoMatch),
     PageWith(1, MIN_TEXT_LENGTH + 1, 1, MIN_TEXT_LENGTH + 1),
     PageWith(1, 20, Len(possible_selectors), MIN_TEXT_LENGTH + 1)}

\* every attempt's GET succeeds
AllOk == [attempt \in 1..ATTEMPTS |-> "ok"]

\* horoscope_parser.get_horoscope(sign) and the answer of handle_text
CallGetHoroscope(sign, http, page) ==
    LET r == get_horoscope(sign, http, page)
    IN  /\ last' = [op |-> "get_horoscope", sign |-> sign, http |-> http,
                    page |-> page, result |-> r, reply |-> horoscope_reply(r)]
        /\ UNCHANGED <<users, disk, now, verified>>
        /\ UNCHANGED loopvars
        /\ UNCHANGED topicvars

\* horoscope_parser.get_tarot() and the answer of handle_text
CallGetTarot(http, page, exists) ==
    LET r == get_tarot(http, page)
    IN  /\ last' = [op |-> "get_tarot", http |-> http, page |-> page,
                    exists |-> exists, result |-> r,
                    reply |-> tarot_reply(r, exists)]
        /\ UNCHANGED <<users, disk, now, verified>>
        /\ UNCHANGED loopvars
        /\ UNCHANGED topicvars

NextFetch ==
    \/ \E sign \in Signs, http \in HttpOutcomes, page \in FewPages :
          CallGetHoroscope(sign, http, page)
    \/ \E page \in Pages : CallGetHoroscope("oven", AllOk, page)
    \/ \E http \in HttpOutcomes, page \in TarotPages, exists \in BOOLEAN :
          CallGetTarot(http, page, exists)

SpecFetch == Init /\ [][NextFetch]_vars

(***************************************************************************)
(* SpecLoop: the handlers as coroutines on the one asyncio event loop      *)
(* (the aiohttp server is started with asyncio.create_task from post_init, *)
(* so it shares the loop of the Telegram application).  A coroutine runs   *)
(* from one await to the next without interruption; at an await any other  *)
(* coroutine may run.  Every UserDB method is a plain def: a call is inside*)
(* one such piece.  get_horoscope and get_tarot are plain defs as well,    *)
(* called without await: while requests.get or time.sleep runs inside them *)
(* the loop runs nothing else.                                             *)
(***************************************************************************)
\* the day the clock stops at under SpecLoop
MaxLoopTime == 4

\* a coroutine at the await pc; arg is the callback body it is reading or
\* the attempt its fetch is at, 0 otherwise
Task(pc, kind, arg) == [pc |-> pc, kind |-> kind, arg |-> arg]

\* the table after a registration of k: add_user
Registered(table, k) ==
    [key \in DOMAIN table \cup {k} |->
        IF key \in DOMAIN table
        THEN table[key]
        ELSE [subscription |-> DefaultSubscription]]

\* the table after an activation of k at time t: set_subscription
Activated(table, k, days, sub_type, t) ==
    LET old == Registered(table, k)
    IN  [old EXCEPT ![k] =
            [subscription |->
                [active |-> TRUE, expires |-> t + days, type |-> sub_type,
                 start_date |-> t,
                 trial_used |-> (old[k].subscription.trial_used
                                 \/ sub_type = "trial")]]]

\* the table after a read of k's status at time t: has_active_subscription
Flipped(table, k, t) ==
    IF /\ k \in DOMAIN table
       /\ table[k].subscription.active
       /\ t > table[k].subscription.expires
    THEN [table EXCEPT ![k].subscription.active = FALSE]
    ELSE table

\* a step of the loop that ends with the coroutine of slot at next
LoopStep(slot, db, next, exp) ==
    /\ users' = db.users
    /\ disk' = db.disk
    /\ tasks' = [tasks EXCEPT ![slot] = next]
    /\ expected' = exp
    /\ UNCHANGED <<now, verified, last>>
    /\ UNCHANGED topicvars

\* the loop is free and slot holds no coroutine: an update can be dispatched
CanDispatch(slot) == blocked = NoTask /\ tasks[slot].pc = "idle"

\* the loop is free and the await of the coroutine in slot has completed
CanResume(slot, pc, kind) ==
    /\ blocked = NoTask
    /\ tasks[slot].pc = pc
    /\ tasks[slot].kind = kind

\* a day passes; a fetch (at most 3 requests of 10 s and 2 sleeps of 5 s) is
\* over within the day it began
LoopTick ==
    /\ blocked = NoTask
    /\ now < MaxLoopTime
    /\ now' = now + 1
    /\ UNCHANGED <<users, disk, verified, last, tasks, blocked, expected>>
    /\ UNCHANGED topicvars

\* /start (or "◶ Назад"): start runs up to its first await, which is
\* get_chat_member, or reply_text for a user in ADMIN_IDS
DispatchStart(user_id) ==
    LET k == str(user_id)
        r == start(DB, user_id, <<"member", "member">>, now)
    IN  /\ CanDispatch(k)
        /\ UNCHANGED blocked
        /\ IF k \in ADMIN_IDS
           THEN LoopStep(k, r.db, Task("await_reply", "start", 0),
                         Flipped(Registered(expected, k), k, now))
           ELSE LoopStep(k, DB, Task("await_check", "start", 0), expected)

\* get_chat_member has answered: start goes on to reply_text, through
\* add_user and get_main_menu when the check passed
ResumeCheck(user_id, outcome) ==
    LET k == str(user_id)
        r == start(DB, user_id, outcome, now)
    IN  /\ CanResume(k, "await_check", "start")
        /\ UNCHANGED blocked
        /\ LoopStep(k, r.db, Task("await_reply", "start", 0),
                    IF r.checked
                    THEN Flipped(Registered(expected, k), k, now)
                    ELSE expected)

\* the "check_sub" button: button_callback runs up to await query.answer()
DispatchButton(user_id) ==
    /\ CanDispatch(str(user_id))
    /\ UNCHANGED blocked
    /\ LoopStep(str(user_id), DB, Task("await_check", "button_callback", 0),
                expected)

\* query.answer() and the channel check have completed: after a check that
\* passed, await query.edit_message_text; after one that failed the handler
\* ends
ResumeButtonCheck(user_id, outcome) ==
    LET k == str(user_id)
    IN  /\ CanResume(k, "await_check", "button_callback")
        /\ UNCHANGED blocked
        /\ LoopStep(k, DB,
                    IF check_channel_subscription(user_id, outcome).ret
                    THEN Task("await_edit", "button_callback", 0)
                    ELSE Idle,
                    expected)

\* the confirmation was shown: add_user and get_main_menu, up to
\* await context.bot.send_message
ResumeButtonEdit(user_id) ==
    LET k == str(user_id)
    IN  /\ CanResume(k, "await_edit", "button_callback")
        /\ UNCHANGED blocked
        /\ LoopStep(k, get_main_menu(add_user(DB, user_id), user_id, now),
                    Task("await_reply", "button_callback", 0),
                    Flipped(Registered(expected, k), k, now))

\* the last send of a handler has completed: the coroutine ends
ResumeReply(slot) ==
    /\ blocked = NoTask
    /\ tasks[slot].pc = "await_reply"
    /\ UNCHANGED blocked
    /\ LoopStep(slot, DB, Idle, expected)

\* "🎁 Активировать пробный период (3 дня)": can_use_trial, set_subscription
\* and the get_main_menu of the notification run before the first await
DispatchTrialIn(slot, user_id) ==
    LET k == str(user_id)
        c == can_use_trial(DB, user_id)
        db1 == set_subscription(c.db, user_id, TRIAL_DAYS, "trial", now)
        db2 == send_subscription_notification(db1, user_id, now, TRUE)
    IN  /\ CanDispatch(slot)
        /\ UNCHANGED blocked
        /\ IF c.ret
           THEN LoopStep(slot, db2, Task("await_notify", "trial", 0),
                         Flipped(Activated(expected, k, TRIAL_DAYS, "trial", now),
                                 k, now))
           ELSE LoopStep(slot, c.db, Task("await_reply", "trial", 0),
                         Registered(expected, k))

\* the trial button of a user with no other update in flight
DispatchTrial(user_id) == DispatchTrialIn(str(user_id), user_id)

\* the notification of the trial was sent: get_main_menu, then reply_text
ResumeTrialNotifyIn(slot, user_id) ==
    LET k == str(user_id)
    IN  /\ CanResume(slot, "await_notify", "trial")
        /\ UNCHANGED blocked
        /\ LoopStep(slot, get_main_menu(DB, user_id, now),
                    Task("await_reply", "trial", 0), Flipped(expected, k, now))

ResumeTrialNotify(user_id) == ResumeTrialNotifyIn(str(user_id), user_id)

\* "🎴 Карта Таро дня" or a zodiac button: the gate; a user it lets through
\* enters get_tarot / get_horoscope, which holds the loop
DispatchContent(user_id, text) ==
    LET k == str(user_id)
        g == content_gate(DB, user_id, now)
    IN  /\ CanDispatch(k)
        /\ IF g.denied
           THEN /\ UNCHANGED blocked
                /\ LoopStep(k, can_use_trial(g.db, user_id).db,
                            Task("await_reply", text, 0),
                            Registered(Flipped(expected, k, now), k))
           ELSE /\ blocked' = k
                /\ LoopStep(k, g.db, Task("fetching", text, 0),
                            Flipped(expected, k, now))

\* one requests.get of the fetch: the call returns after a success, after
\* an exception that is no RequestException and after the third failure;
\* otherwise time.sleep(5) follows
FetchGet(slot, outcome) ==
    LET attempt == tasks[slot].arg
        text == tasks[slot].kind
    IN  /\ blocked = slot
        /\ tasks[slot].pc = "fetching"
        /\ IF outcome = "RequestException" /\ attempt < 2
           THEN /\ UNCHANGED blocked
                /\ LoopStep(slot, DB, Task("sleeping", text, attempt), expected)
           ELSE /\ blocked' = NoTask
                /\ LoopStep(slot, DB, Task("await_reply", text, 0), expected)

\* time.sleep(5) returns: the next attempt
FetchWake(slot) ==
    /\ blocked = slot
    /\ tasks[slot].pc = "sleeping"
    /\ UNCHANGED blocked
    /\ LoopStep(slot, DB,
                Task("fetching", tasks[slot].kind, tasks[slot].arg + 1),
                expected)

\* POST /callback arrives: handle_callback runs up to await request.json()
DispatchCallback(data) ==
    /\ CanDispatch("callback")
    /\ UNCHANGED blocked
    /\ LoopStep("callback", DB, Task("await_json", "handle_callback", data),
                expected)

\* the body was read: the checks, set_subscription, and the get_expiry and
\* get_main_menu of the notification, up to await bot.send_message; a body
\* that is refused is answered at once
ResumeJson ==
    LET data == tasks["callback"].arg
        r == handle_callback(DB, data, now, TRUE)
    IN  /\ CanResume("callback", "await_json", "handle_callback")
        /\ UNCHANGED blocked
        /\ IF r.resp = Response(200, "OK")
           THEN LET k == str(int(data.user_id))
                    days == IF amount_rub_equals(data.amount,
                                    SUBSCRIPTION_PLANS["month"].price)
                            THEN SUBSCRIPTION_PLANS["month"].days
                            ELSE SUBSCRIPTION_PLANS["week"].days
                IN  LoopStep("callback", r.db,
                             Task("await_reply", "handle_callback", 0),
                             Flipped(Activated(expected, k, days, "paid", now),
                                     k, now))
           ELSE LoopStep("callback", r.db, Idle, expected)

\* the texts that start a fetch
FetchTexts == {"tarot", "sign"}

NextLoop ==
    \/ LoopTick
    \/ \E user_id \in UserIds : DispatchStart(user_id)
    \/ \E user_id \in UserIds, outcome \in HandlerOutcomes :
          ResumeCheck(user_id, outcome)
    \/ \E user_id \in UserIds : DispatchButton(user_id)
    \/ \E user_id \in UserIds, outcome \in HandlerOutcomes :
          ResumeButtonCheck(user_id, outcome)
    \/ \E user_id \in UserIds : ResumeButtonEdit(user_id)
    \/ \E slot \in TaskSlots : ResumeReply(slot)
    \/ \E user_id \in UserIds : DispatchTrial(user_id)
    \/ \E user_id \in UserIds : ResumeTrialNotify(user_id)
    \/ \E user_id \in UserIds, text \in FetchTexts :
          DispatchContent(user_id, text)
    \/ \E slot \in TaskSlots \ {"callback"}, outcome \in AttemptOutcomes :
          FetchGet(slot, outcome)
    \/ \E slot \in TaskSlots \ {"callback"} : FetchWake(slot)
    \/ \E data \in BotBodies : DispatchCallback(data)
    \/ ResumeJson

SpecLoop == Init /\ [][NextLoop]_vars

(***************************************************************************)
(* Properties of UserDB, checked under SpecDB                              *)
(***************************************************************************)
Sub(us, k) == us[k].subscription

\* C1, the call: after has_active_subscription(u) found the stored record
\* active with its expiry in the past, the call has returned False, the
\* stored flag is False, and the file holds the corrected table.
C1_FlipOnRead ==
    (/\ last.op = "has_active_subscription"
     /\ last.was_active
     /\ Sub(users, last.u).expires < now)
    => (/\ last.ret = FALSE
        /\ ~Sub(users, last.u).active
        /\ last.u \in DOMAIN disk
        /\ ~Sub(disk, last.u).active
        /\ disk = users)

\* C1, afterwards: a stored flag goes from False to True only in an
\* activation of that user (set_subscription, directly or by a PAYED
\* callback).
C1_StaysInactive ==
    \A k \in DOMAIN users :
        (~Sub(users, k).active /\ k \in DOMAIN users' /\ Sub(users', k).active)
        => \/ last'.op = "set_subscription" /\ last'.u = k
           \/ /\ last'.op = "handle_callback"
              /\ last'.resp = Response(200, "OK")
              /\ last'.data.user_id \in IntStrings
              /\ str(int(last'.data.user_id)) = k

\* C1 (lazy expiry): has_active_subscription returns False for an active
\* record whose expiry is in the past, sets the stored flag to False in that
\* same call and persists the table; the record then stays inactive until a
\* new activation.
C1_LazyExpiry == [](C1_FlipOnRead) /\ [][C1_StaysInactive]_vars

\* a state in which a call has just flipped an expired trial
C1_Witness ==
    /\ last.op = "has_active_subscription"
    /\ last.was_active
    /\ last.ret = FALSE
    /\ Sub(users, last.u).expires < now
    /\ ~Sub(users, last.u).active
    /\ ~Sub(disk, last.u).active

TrialUsed(us, k) == k \in DOMAIN us /\ Sub(us, k).trial_used

\* C2 (trial is one-shot): trial_used becomes True only in a
\* set_subscription call with sub_type = "trial", and once True it is True
\* after every step (registrations, paid activations, expiry flips, payment
\* callbacks, the clock), with can_use_trial returning False.
C2_TrialStep ==
    \A user_id \in UserIds :
        LET k == str(user_id)
        IN  /\ (TrialUsed(users', k) /\ ~TrialUsed(users, k))
               => (/\ last'.op = "set_subscription"
                   /\ last'.sub_type = "trial"
                   /\ last'.u = k)
            /\ TrialUsed(users, k)
               => (/\ TrialUsed(users', k)
                   /\ ~can_use_trial([users |-> users', disk |-> disk'],
                                     user_id).ret)

C2_TrialOneShot == [][C2_TrialStep]_vars

\* a paid activation by a callback has just overwritten a used trial
C2_Witness ==
    /\ last.op = "handle_callback"
    /\ last.resp = Response(200, "OK")
    /\ \E k \in DOMAIN users :
          /\ str(int(last.data.user_id)) = k
          /\ Sub(users, k).trial_used
          /\ Sub(users, k).type = "paid"

\* C10 (activate overwrites): after set_subscription(u, days, sub_type) the
\* record has expires = time of this call + days, start_date = time of this
\* call and type = sub_type, whatever the record held before.
C10_Overwrite ==
    last.op = "set_subscription"
    => (/\ last.u \in DOMAIN users
        /\ Sub(users, last.u).active
        /\ Sub(users, last.u).expires = now + last.days
        /\ Sub(users, last.u).start_date = now
        /\ Sub(users, last.u).type = last.sub_type
        /\ disk = users)

\* a second activation has just set an expiry earlier than the one it
\* replaced
C10_Witness ==
    /\ last.op = "set_subscription"
    /\ last.prev_expires # NoTime
    /\ Sub(users, last.u).expires < last.prev_expires
    /\ Sub(users, last.u).start_date = now
    /\ now > 0

(***************************************************************************)
(* Properties of handle_callback, checked under SpecPay                    *)
(***************************************************************************)
CatalogAmounts ==
    {amount \in FloatStrings :
        \E plan_id \in PlanIds :
            float(amount) = SUBSCRIPTION_PLANS[plan_id].price * 100}

\* the step is a run of handle_callback that left the table and the file
\* as they were
CallbackLeftTable == users' = users /\ disk' = disk

\* C3 (exact amount activates the plan): after a callback with state PAYED,
\* a catalog amount (15900: 7 days, 35900: 30 days) and a user id, the user
\* named holds an active paid subscription that starts now and expires after
\* the plan's days, and the response is 200 "OK".
C3_PaidActivates ==
    (/\ last.op = "handle_callback"
     /\ last.data.state = "PAYED"
     /\ last.data.amount \in {"15900", "35900"}
     /\ last.data.user_id \in IntStrings)
    => LET k == str(int(last.data.user_id))
           days == IF last.data.amount = "15900" THEN 7 ELSE 30
       IN  /\ last.resp = Response(200, "OK")
           /\ k \in DOMAIN users
           /\ Sub(users, k).active
           /\ Sub(users, k).type = "paid"
           /\ Sub(users, k).expires = now + days
           /\ Sub(users, k).start_date = now
           /\ disk = users

\* the 7-day plan has just been activated for user 2 on a later day, over a
\* 30-day one
C3_Witness ==
    /\ last.op = "handle_callback"
    /\ last.data = [user_id |-> "02", state |-> "PAYED", amount |-> "15900"]
    /\ last.resp = Response(200, "OK")
    /\ now > 0
    /\ Sub(users, "2").expires = now + 7
    /\ Sub(users, "2").type = "paid"

\* C4 (unknown amount is rejected): a callback with state PAYED whose amount
\* is a number that is no catalog price is answered with 400 and leaves the
\* table and the file unchanged.
C4_Step ==
    (/\ last'.op = "handle_callback"
     /\ last'.data.state = "PAYED"
     /\ last'.data.amount \in FloatStrings \ CatalogAmounts)
    => (/\ last'.resp.status = 400
        /\ CallbackLeftTable)

C4_UnknownAmountRejected == [][C4_Step]_vars

\* amount 20000 has just been rejected for user 1, who has no record, while
\* user 2 holds a subscription
C4_Witness ==
    /\ last.op = "handle_callback"
    /\ last.data = [user_id |-> "1", state |-> "PAYED", amount |-> "20000"]
    /\ last.resp = Response(400, "Unknown payment amount")
    /\ "1" \notin DOMAIN users
    /\ "2" \in DOMAIN users
    /\ Sub(users, "2").active

\* C5 as claimed: a callback whose state is present and is not "PAYED",
\* with its user id and amount present, leaves every record unchanged and is
\* answered with 200.
C5_AsClaimedStep ==
    (/\ last'.op = "handle_callback"
     /\ last'.data.state \notin {Missing, "PAYED"}
     /\ last'.data.user_id # Missing
     /\ last'.data.amount # Missing)
    => (/\ CallbackLeftTable
        /\ last'.resp.status = 200)

C5_AsClaimed == [][C5_AsClaimedStep]_vars

\* C5, amended (non-success status is a no-op): a callback whose state in
\* upper case is not "PAYED" leaves the table and the file unchanged, and
\* when its user id, state and amount are all present it is answered with
\* 200 "Payment not confirmed".
C5_Step ==
    (/\ last'.op = "handle_callback"
     /\ upper(last'.data.state) # "PAYED")
    => (/\ CallbackLeftTable
        /\ (/\ last'.data.user_id # Missing
            /\ last'.data.state # Missing
            /\ last'.data.amount # Missing)
           => last'.resp = Response(200, "Payment not confirmed"))

C5_NotPaidNoOp == [][C5_Step]_vars

\* a FAILED callback with a catalog amount has just been acknowledged, the
\* user it names holding no subscription
C5_Witness ==
    /\ last.op = "handle_callback"
    /\ last.data = [user_id |-> "1", state |-> "FAILED", amount |-> "35900"]
    /\ last.resp = Response(200, "Payment not confirmed")
    /\ "1" \in DOMAIN users
    /\ ~Sub(users, "1").active
    /\ "2" \in DOMAIN users
    /\ Sub(users, "2").active

\* C6 (missing field): a callback that lacks the user id, the state or the
\* amount is answered with 400 and leaves the table and the file unchanged,
\* whatever the other fields hold.
C6_Step ==
    (/\ last'.op = "handle_callback"
     /\ \/ last'.data.user_id = Missing
        \/ last'.data.state = Missing
        \/ last'.data.amount = Missing)
    => (/\ last'.resp.status = 400
        /\ CallbackLeftTable)

C6_MissingFieldRejected == [][C6_Step]_vars

\* a PAYED callback for user 1 without an amount has just been rejected
C6_Witness ==
    /\ last.op = "handle_callback"
    /\ last.data = [user_id |-> "1", state |-> "PAYED", amount |-> Missing]
    /\ last.resp = Response(400, "amount is required")
    /\ "1" \in DOMAIN users
    /\ ~Sub(users, "1").active

(***************************************************************************)
(* Properties of the content gate, checked under Spec                      *)
(***************************************************************************)
\* has_active_subscription(k) would return True in the current state
ActiveNow(k) ==
    /\ k \in DOMAIN users
    /\ Sub(users, k).active
    /\ ~Expired(now, Sub(users, k).expires)

\* the replies of handle_text to a request for horoscope or tarot content
GateReplies == ContentReplies \cup {"subscribers_only"}

\* C7 (subscription gating): a request for horoscope or tarot content is
\* served if the user is in ADMIN_IDS or has an active subscription, and is
\* denied otherwise.
C7_GateAsClaimed ==
    (last.op = "handle_text" /\ last.reply \in GateReplies)
    => (last.reply \in ContentReplies
        <=> (last.u \in ADMIN_IDS \/ ActiveNow(last.u)))

\* C8 (channel-membership gating): horoscope or tarot content is never
\* served to a user who is not in ADMIN_IDS and whose channel membership has
\* not been confirmed.
C8_MembershipAsClaimed ==
    (last.op = "handle_text" /\ last.reply \in ContentReplies)
    => (last.u \in ADMIN_IDS \/ last.u \in verified)

(***************************************************************************)
(* Properties of check_channel_subscription, checked under SpecChannel     *)
(***************************************************************************)
\* C9 (fail-closed): for a user in ADMIN_IDS the check returns True without
\* a query; for any other user it returns True only after a query of every
\* channel, each answered with member, administrator or creator, and any
\* other status or an exception on any channel makes it return False.
C9_FailClosed ==
    last.op = "check_channel_subscription"
    => LET r == last.result
           admin == str(last.user_id) \in ADMIN_IDS
       IN  /\ admin => (r.ret /\ r.queries = 0)
           /\ (~admin /\ r.ret)
              => (/\ r.queries = Len(CHANNELS)
                  /\ \A i \in 1..Len(CHANNELS) :
                        last.outcome[i] \in MemberStatuses)
           /\ (~admin /\ \E i \in 1..Len(CHANNELS) :
                            last.outcome[i] \notin MemberStatuses)
              => ~r.ret

\* the check has just denied a member of the first channel whose second
\* query raised
C9_Witness ==
    /\ last.op = "check_channel_subscription"
    /\ str(last.user_id) \notin ADMIN_IDS
    /\ last.outcome = <<"member", "error">>
    /\ last.result = [ret |-> FALSE, queries |-> 2]

(***************************************************************************)
(* Properties of the record's life, checked under SpecExpiry               *)
(***************************************************************************)
\* the record set_subscription(days, sub_type) at time t leaves for a user
\* who had none
FreshActivation(days, sub_type, t) ==
    [subscription |->
        [active |-> TRUE, expires |-> t + days, type |-> sub_type,
         start_date |-> t, trial_used |-> (sub_type = "trial")]]

\* the record of k is the one set_subscription(k, 7, 'paid') wrote and its
\* expiry has not been exceeded
PaidWeekRunning(us, k, t) ==
    /\ k \in DOMAIN us
    /\ Sub(us, k).active
    /\ Sub(us, k).type = "paid"
    /\ Sub(us, k).expires = Sub(us, k).start_date + 7
    /\ t <= Sub(us, k).expires

\* C11, the user with no record: has_active_subscription has returned False
\* (and has created no record).
C11_NoRecordInactive ==
    (last.op = "has_active_subscription" /\ last.u \notin DOMAIN users)
    => last.ret = FALSE

\* C11, the steps: set_subscription on a user with no record leaves the
\* default record with the activation written over it, saved; while the
\* 7-day paid record is within its expiry has_active_subscription returns
\* True and leaves it alone, and get_expiry returns start + 7.
C11_Step ==
    /\ (last'.op = "set_subscription" /\ last'.u \notin DOMAIN users)
       => (/\ last'.u \in DOMAIN users'
           /\ users'[last'.u] = FreshActivation(last'.days, last'.sub_type, now)
           /\ disk' = users')
    /\ (/\ last'.op \in {"has_active_subscription", "get_expiry"}
        /\ PaidWeekRunning(users, last'.u, now))
       => (/\ users' = users
           /\ last'.op = "has_active_subscription" => last'.ret = TRUE
           /\ last'.op = "get_expiry"
              => last'.ret = Sub(users, last'.u).start_date + 7)

\* C11: without a record has_active_subscription returns False;
\* set_subscription on a user with no record creates the default record and
\* activates it; after set_subscription(u, 7, 'paid') has_active_subscription
\* returns True and get_expiry returns the activation time + 7 days, as long
\* as the current time does not exceed that expiry.
C11_ActivateFromNothing == [](C11_NoRecordInactive) /\ [][C11_Step]_vars

\* has_active_subscription has just returned True on the last day of a
\* 7-day paid subscription
C11_Witness ==
    /\ last.op = "has_active_subscription"
    /\ last.ret = TRUE
    /\ PaidWeekRunning(users, last.u, now)
    /\ now = Sub(users, last.u).expires
    /\ ~Sub(users, last.u).trial_used

\* C12 (expiry and start only while active): get_expiry and
\* get_subscription_start return a timestamp only for a user whose expiry
\* has not passed, also when has_active_subscription was not called since.
C12_OnlyWhileActive ==
    (/\ last.op \in {"get_expiry", "get_subscription_start"}
     /\ last.ret # NoTime)
    => ActiveNow(last.u)

\* C13 (expiry boundary): has_active_subscription, finding the stored record
\* active with expires <= now, has returned False, the stored flag is False
\* and the file holds the corrected table.
C13_BoundaryAsClaimed ==
    (/\ last.op = "has_active_subscription"
     /\ last.was_active
     /\ Sub(users, last.u).expires <= now)
    => (/\ last.ret = FALSE
        /\ ~Sub(users, last.u).active
        /\ ~Sub(disk, last.u).active)

(***************************************************************************)
(* Properties of repeated deliveries, checked under SpecReplay             *)
(***************************************************************************)
\* the days of the plan a catalog amount pays for
DaysOfAmount(amount) == IF amount = "15900" THEN 7 ELSE 30

\* the subscription sub was written by a delivery of a payment of amount
WrittenByDelivery(sub, amount) ==
    /\ sub.type = "paid"
    /\ sub.start_date # NoTime
    /\ sub.expires = sub.start_date + DaysOfAmount(amount)

\* C14 (replayed payment): a PAYED callback with a catalog amount that
\* finds the subscription an earlier delivery of the same callback wrote is
\* answered 200 "OK" like the first one, and leaves expires = time of this
\* delivery + the plan's days and start_date = time of this delivery.
C14_ReplayReactivates ==
    (/\ last.op = "handle_callback"
     /\ last.data \in ReplayBodies
     /\ WrittenByDelivery(last.before, last.data.amount))
    => LET k == str(int(last.data.user_id))
       IN  /\ last.resp = Response(200, "OK")
           /\ Sub(users, k).active
           /\ Sub(users, k).expires = now + DaysOfAmount(last.data.amount)
           /\ Sub(users, k).start_date = now
           /\ disk = users

\* the week payment of user 2 has just been delivered again, two days after
\* its first delivery
C14_Witness ==
    /\ last.op = "handle_callback"
    /\ last.data = [user_id |-> "02", state |-> "PAYED", amount |-> "15900"]
    /\ last.resp = Response(200, "OK")
    /\ WrittenByDelivery(last.before, "15900")
    /\ last.before.start_date = now - 2
    /\ Sub(users, "2").expires = now + 7
    /\ Sub(users, "2").expires < last.before.expires + 7

(***************************************************************************)
(* Properties of the parser, checked under SpecFetch                       *)
(***************************************************************************)
\* the strings get_horoscope returns
HoroscopeStrings ==
    {Literal(kind) : kind \in {"invalid_sign", "sorry_network",
                               "sorry_not_found", "sorry_unexpected"}}
    \cup {PageText(sel, len) : sel \in 1..Len(possible_selectors),
                               len \in TextLengths}

\* every attempt of http fails with a network or HTTP error
AllNetworkFailures(http) ==
    \A attempt \in 1..ATTEMPTS : http[attempt] = "RequestException"

\* C15 (the fetcher never raises): whatever the sign, the outcome of each
\* request and the page, get_horoscope returns a string and no exception
\* leaves it; after 3 consecutive network failures it returns the "could not
\* connect" text, which contains "Извините", and handle_text answers with
\* its "not found" message, not with a horoscope.
C15_NeverRaises ==
    last.op = "get_horoscope"
    => (/\ ~last.result.raised
        /\ last.result.ret \in HoroscopeStrings
        /\ (lower(last.sign) \in zodiac_signs /\ AllNetworkFailures(last.http))
           => (/\ last.result.ret = Literal("sorry_network")
               /\ ContainsSorry(last.result.ret)
               /\ last.result.gets = 3
               /\ last.reply = "horoscope_not_found"))

\* three attempts for "Oven" have just failed with network errors
C15_Witness ==
    /\ last.op = "get_horoscope"
    /\ last.sign = "Oven"
    /\ AllNetworkFailures(last.http)
    /\ last.result.ret = Literal("sorry_network")
    /\ last.reply = "horoscope_not_found"

\* the attempt at which a call that reaches the retry loop stops: the first
\* one that does not raise RequestException, or the last one
RECURSIVE StoppingAttempt(_, _)
StoppingAttempt(attempt, http) ==
    IF attempt = ATTEMPTS \/ http[attempt] # "RequestException"
    THEN attempt
    ELSE StoppingAttempt(attempt + 1, http)

\* C16 (bounded retry): a call of get_horoscope or get_tarot makes at most 3
\* GET attempts, each attempt after the first follows an attempt that failed
\* with a network/HTTP error, and the call ends at the first attempt that
\* does not fail so; a GET that succeeds on a page without a qualifying text
\* ends get_horoscope with the "could not get" text at that attempt.
C16_BoundedRetry ==
    last.op \in {"get_horoscope", "get_tarot"}
    => LET gets == last.result.gets
       IN  /\ gets <= 3
           /\ \A attempt \in 1..ATTEMPTS :
                 (attempt < gets) => last.http[attempt] = "RequestException"
           /\ (last.op = "get_tarot" \/ lower(last.sign) \in zodiac_signs)
              => gets = StoppingAttempt(1, last.http)
           /\ (/\ last.op = "get_horoscope"
               /\ gets >= 1
               /\ last.http[gets] = "ok"
               /\ parse_page(last.page).kind # "page_text")
              => last.result.ret = Literal("sorry_not_found")

\* the second attempt, after a network failure, has just fetched a page
\* without a text, and the third one was not made
C16_Witness ==
    /\ last.op = "get_horoscope"
    /\ last.http = <<"RequestException", "ok", "ok">>
    /\ last.page = PageWith(1, NoMatch, 1, NoMatch)
    /\ last.result.gets = 2
    /\ last.result.sleeps = 1
    /\ last.result.ret = Literal("sorry_not_found")

\* the selectors of a page whose first match passes the quality gate
Qualifying(page) ==
    {sel \in 1..Len(possible_selectors) :
        page[sel] # NoMatch /\ page[sel] > MIN_TEXT_LENGTH}

\* C17 (selector fallback with quality gate): on a fetched page
\* get_horoscope returns the text of the first selector, in list order,
\* whose first match is longer than 50 characters after trimming, and the
\* sentinel only when no selector has such a match.
C17_FirstQualifyingAsClaimed ==
    (/\ last.op = "get_horoscope"
     /\ lower(last.sign) \in zodiac_signs
     /\ last.http[1] = "ok")
    => IF Qualifying(last.page) # {}
       THEN \E sel \in Qualifying(last.page) :
               /\ \A other \in Qualifying(last.page) : sel <= other
               /\ last.result.ret = PageText(sel, last.page[sel])
       ELSE ContainsSorry(last.result.ret)

\* C18 (image only when the file exists): get_tarot returns an image path
\* only when the resolved file exists; when it does not exist the path is
\* None and handle_text sends the text-only card message.
C18_ImageOnlyIfExistsAsClaimed ==
    last.op = "get_tarot"
    => (/\ last.result.image_path # NoPath => last.exists
        /\ (last.http[1] = "ok" /\ ~last.exists)
           => last.reply = "tarot_text_only")

(***************************************************************************)
(* Properties of the event loop, checked under SpecLoop                    *)
(***************************************************************************)
\* C19 (no lost updates): under every interleaving of the message handlers
\* and the callback handler at their awaits, the user table, and the file,
\* hold exactly what the completed registrations, activations and expiry
\* flips add up to, applied in the order they completed.
C19_NoLostUpdate ==
    /\ users = expected
    /\ disk = expected

\* the callback has activated the paid plan of user 2 between the two awaits
\* of the handler that activated that user's trial, while user 1 waits for
\* the channel check: the record shows the trial and the payment
C19_Witness ==
    /\ tasks["2"] = Task("await_notify", "trial", 0)
    /\ tasks["callback"] = Task("await_reply", "handle_callback", 0)
    /\ tasks["1"].pc = "await_edit"
    /\ "1" \notin DOMAIN users
    /\ Sub(users, "2").type = "paid"
    /\ Sub(users, "2").trial_used
    /\ Sub(users, "2").expires = now + 7
    /\ now > 0

\* C20 (a fetch does not stall other work): while get_horoscope or
\* get_tarot runs for one user, an update of another user whose handler is
\* not running can be dispatched, and so can a payment callback.
C20_NoStallAsClaimed ==
    \A slot \in TaskSlots \ {"callback"} :
        blocked = slot
        => /\ \A user_id \in UserIds :
                 (str(user_id) # slot /\ tasks[str(user_id)].pc = "idle")
                 => ENABLED DispatchStart(user_id)
           /\ tasks["callback"].pc = "idle"
              => ENABLED (\E data \in BotBodies : DispatchCallback(data))

\* C21 (unparseable field): a PAYED callback that carries all three fields but
\* whose amount is not a number, or whose user id is not an integer, is
\* answered with 400, never with 500, and leaves the table and the file
\* unchanged.
C21_Step ==
    (/\ last'.op = "handle_callback"
     /\ last'.data.user_id # Missing
     /\ last'.data.state # Missing
     /\ last'.data.amount # Missing
     /\ payment_confirmed(last'.data.state)
     /\ \/ last'.data.amount \notin FloatStrings
        \/ last'.data.user_id \notin IntStrings)
    => (/\ last'.resp.status = 400
        /\ CallbackLeftTable)

C21_UnparseableIs400AsClaimed == [][C21_Step]_vars

(***************************************************************************)
(* Shape of the stored record, checked under SpecDB                        *)
(***************************************************************************)
\* the four activation fields of k's record are as add_user wrote them
Unactivated(us, k) ==
    /\ ~Sub(us, k).active
    /\ Sub(us, k).expires = NoTime
    /\ Sub(us, k).type = "None"
    /\ Sub(us, k).start_date = NoTime

\* the step just taken ran set_subscription for k: a direct call, or a
\* callback answered 200 OK for that user
ActivationOf(k) ==
    \/ /\ last'.op = "set_subscription"
       /\ last'.u = k
    \/ /\ last'.op = "handle_callback"
       /\ last'.resp = Response(200, "OK")
       /\ str(int(last'.data.user_id)) = k

C22_Shape ==
    \A k \in DOMAIN users :
        Sub(users, k).active
        => (/\ Sub(users, k).expires # NoTime
            /\ Sub(users, k).start_date # NoTime
            /\ Sub(users, k).type \in {"trial", "paid"})

C22_Step ==
    \A k \in DOMAIN users' :
        (/\ k \in DOMAIN users => Unactivated(users, k)
         /\ ~ActivationOf(k))
        => Unactivated(users', k)

\* C22 (record shape): in every state reached from the empty table through
\* add_user, set_subscription, has_active_subscription, can_use_trial and
\* payment callbacks, a record with active = true has expires and start_date
\* set and type trial or paid; a record that no set_subscription has touched
\* has active = false and expires, type and start_date unset.
C22_RecordShape == [](C22_Shape) /\ [][C22_Step]_vars

\* user 1 holds a running paid subscription next to the never-activated
\* record of user 2, whose status has just been read
C22_Witness ==
    /\ "1" \in DOMAIN users
    /\ Sub(users, "1").active
    /\ Sub(users, "1").type = "paid"
    /\ "2" \in DOMAIN users
    /\ Unactivated(users, "2")
    /\ last.op = "has_active_subscription"
    /\ last.u = "2"

(***************************************************************************)
(* SpecRegister: the methods of UserDB that may create a record, on whole  *)
(* records (subscription, username and last_active).                       *)
(***************************************************************************)
\* the day the clock stops at under SpecRegister
MaxRegTime == 2

\* the usernames add_user is called with
Usernames == {NoName, "anna", "boris"}

\* the trial and the 7-day plan
RegActivations == {a \in Activations : a[1] <= SUBSCRIPTION_PLANS["week"].days}

RegAddUser(user_id, username) ==
    LET db1 == add_user(DB, user_id)
    IN  /\ users' = db1.users
        /\ disk' = db1.disk
        /\ profile' = add_user_fields(profile, user_id, username, now)
        /\ UNCHANGED <<adminvars, boot>>
        /\ last' = [op |-> "add_user", u |-> str(user_id),
                    username |-> username]
        /\ UNCHANGED <<now, verified>>
        /\ UNCHANGED loopvars

\* set_subscription calls self.add_user(user_id) for an unseen user
RegSetSubscription(user_id, days, sub_type) ==
    LET db1 == set_subscription(DB, user_id, days, sub_type, now)
    IN  /\ users' = db1.users
        /\ disk' = db1.disk
        /\ profile' = add_user_fields(profile, user_id, NoName, now)
        /\ UNCHANGED <<adminvars, boot>>
        /\ last' = [op |-> "set_subscription", u |-> str(user_id)]
        /\ UNCHANGED <<now, verified>>
        /\ UNCHANGED loopvars

RegHasActiveSubscription(user_id) ==
    LET r == has_active_subscription(DB, user_id, now)
    IN  /\ users' = r.db.users
        /\ disk' = r.db.disk
        /\ last' = [op |-> "has_active_subscription", u |-> str(user_id)]
        /\ UNCHANGED <<now, verified, profile, adminvars, boot>>
        /\ UNCHANGED loopvars

\* can_use_trial calls self.add_user(user_id) for an unseen user
RegCanUseTrial(user_id) ==
    LET r == can_use_trial(DB, user_id)
    IN  /\ users' = r.db.users
        /\ disk' = r.db.disk
        /\ profile' = add_user_fields(profile, user_id, NoName, now)
        /\ UNCHANGED <<adminvars, boot>>
        /\ last' = [op |-> "can_use_trial", u |-> str(user_id)]
        /\ UNCHANGED <<now, verified>>
        /\ UNCHANGED loopvars

NextRegister ==
    \/ TickTo(MaxRegTime)
    \/ \E user_id \in UserIds, username \in Usernames :
          RegAddUser(user_id, username)
    \/ \E user_id \in UserIds, a \in RegActivations :
          RegSetSubscription(user_id, a[1], a[2])
    \/ \E user_id \in UserIds : RegHasActiveSubscription(user_id)
    \/ \E user_id \in UserIds : RegCanUseTrial(user_id)

SpecRegister == Init /\ [][NextRegister]_vars

(***************************************************************************)
(* Properties of add_user, checked under SpecRegister                      *)
(***************************************************************************)
\* the table t1 is the table t0 with the record rec added under the key k
Extends(t1, t0, k, rec) ==
    /\ DOMAIN t1 = DOMAIN t0 \cup {k}
    /\ t1[k] = rec
    /\ \A j \in DOMAIN t0 : t1[j] = t0[j]

C23_Step ==
    last'.op = "add_user"
    => IF last'.u \in DOMAIN users
       THEN /\ users' = users
            /\ disk' = disk
            /\ profile' = profile
       ELSE /\ Extends(users', users, last'.u,
                       [subscription |-> DefaultSubscription])
            /\ disk' = users'
            /\ Extends(profile', profile, last'.u,
                       NewProfile(last'.username, now))

\* C23 (add_user idempotent): add_user on an existing user changes nothing:
\* the subscription fields, the username and last_active keep their values,
\* whatever username the call passes; on an unseen user it creates exactly
\* the default record (active = false, trial_used = false, nothing else set)
\* with the username passed and the current time, and saves.
C23_AddUserIdempotent ==
    [](DOMAIN profile = DOMAIN users) /\ [][C23_Step]_vars

\* add_user has just been called with another username, a day later, for
\* user 1, who holds a used trial and the username "anna"
C23_Witness ==
    /\ last.op = "add_user"
    /\ last.u = "1"
    /\ last.username = "boris"
    /\ "1" \in DOMAIN users
    /\ Sub(users, "1").trial_used
    /\ profile["1"] = NewProfile("anna", 0)
    /\ now > 0

(***************************************************************************)
(* Properties of registration, checked under Spec                          *)
(***************************************************************************)
\* the step just taken handled a command, a button press or a text of a user
InboundFrom ==
    IF last'.op \in {"start", "button_callback", "handle_text"}
    THEN {last'.u}
    ELSE {}

C24_Step ==
    /\ DOMAIN users \subseteq DOMAIN users'
    /\ InboundFrom \subseteq DOMAIN users'

\* C24 (created on first interaction): the set of user ids in the table only
\* grows, and a user whose command, button press or text has been handled
\* has a record afterwards.
C24_CreatedOnFirstInteractionAsClaimed == [][C24_Step]_vars

(***************************************************************************)
(* The administration dialogue: the modal states kept in                   *)
(* context.user_data, the message templates (MessageManager) and the       *)
(* broadcast.  The texts of the dialogue are named as follows.             *)
(*   broadcast_button       "📢 Рассылка"                                  *)
(*   cancel                 "❌ Отменить"                                  *)
(*   edit_menu              "📝 Редактировать сообщения"                   *)
(*   edit_start_message     "📝 Приветственное сообщение"                  *)
(*   edit_select_spread     "📝 Текст расклада"                            *)
(*   edit_how_spread_works  "📝 Текст психологии"                          *)
(*   users_list, stats      "👥 Список пользователей", "📊 Статистика"     *)
(*   back                   "◶ Назад"                                      *)
(*   hello                  a text that is no button label                 *)
(***************************************************************************)
\* the None of context.user_data['editing_message']
NoKey == "None"

\* message_map of handle_edit_message: button label -> template key
message_map ==
    [edit_start_message |-> "start_message",
     edit_select_spread |-> "select_spread",
     edit_how_spread_works |-> "how_spread_works"]

\* the labels handle_text passes to handle_edit_message
EditLabels ==
    {"edit_start_message", "edit_select_spread", "edit_how_spread_works"}

\* the labels of the admin keyboard tested by handle_text
AdminMenuTexts == {"users_list", "stats", "broadcast_button", "edit_menu"}

\* the number of successes after which the running status is edited
STATUS_EVERY == 10

\* the head of handle_text: the handler the text is passed to; "menu" is the
\* rest of handle_text, the user's menu
handle_text_route(ud, text) ==
    IF ud.awaiting_broadcast
    THEN "handle_broadcast_message"
    ELSE IF ud.editing_message # NoKey \/ text \in EditLabels
    THEN "handle_edit_message"
    ELSE IF text = "back"
    THEN "start"
    ELSE IF text \in AdminMenuTexts
    THEN CASE text = "users_list" -> "admin_users"
           [] text = "stats" -> "admin_stats"
           [] text = "broadcast_button" -> "admin_broadcast"
           [] text = "edit_menu" -> "admin_edit_messages"
    ELSE "menu"

\* admin_broadcast: sets the flag for an admin, returns at once for others
admin_broadcast(ud, user_id) ==
    IF str(user_id) \notin ADMIN_IDS
    THEN ud
    ELSE [ud EXCEPT !.awaiting_broadcast = TRUE]

\* MessageManager._save: the write of messages.json; a failed write is
\* logged inside _save and the method returns normally
MessageManager_save(mm, write_ok) ==
    IF write_ok
    THEN [raised |-> FALSE, mm |-> [mm EXCEPT !.file = mm.messages]]
    ELSE [raised |-> FALSE, mm |-> mm]

\* MessageManager.set: assigns the key in memory, then _save
MessageManager_set(mm, key, value, write_ok) ==
    MessageManager_save(
        [mm EXCEPT !.messages =
            [k \in DOMAIN mm.messages \cup {key} |->
                IF k = key THEN value ELSE mm.messages[k]]],
        write_ok)

\* handle_edit_message without the test of ADMIN_IDS
handle_edit_message_for_all(ud, mm, user_id, text, write_ok, reply_ok) ==
    IF text \in DOMAIN message_map
    THEN [reply |-> IF reply_ok THEN "edit_prompt" ELSE "raised",
          ud |-> [ud EXCEPT !.editing_message = message_map[text]],
          mm |-> mm]
    ELSE IF ud.editing_message # NoKey
    THEN [reply |-> IF reply_ok THEN "updated" ELSE "raised",
          ud |-> IF reply_ok
                 THEN [ud EXCEPT !.editing_message = NoKey]
                 ELSE ud,
          mm |-> MessageManager_set(mm, ud.editing_message, text, write_ok).mm]
    ELSE [reply |-> "none", ud |-> ud, mm |-> mm]

\* handle_edit_message, only for an admin: a label selects the template to
\* edit (the key is stored before the prompt is sent); any other text of an
\* admin who is editing is stored by MessageManager.set, then the
\* confirmation is sent, and editing_message is set to None after the await
\* of that reply_text, which a failed send (reply_ok false) leaves by raising
handle_edit_message(ud, mm, user_id, text, write_ok, reply_ok) ==
    IF str(user_id) \notin ADMIN_IDS
    THEN [reply |-> "none", ud |-> ud, mm |-> mm]
    ELSE IF text \in DOMAIN message_map
    THEN [reply |-> IF reply_ok THEN "edit_prompt" ELSE "raised",
          ud |-> [ud EXCEPT !.editing_message = message_map[text]],
          mm |-> mm]
    ELSE IF ud.editing_message # NoKey
    THEN [reply |-> IF reply_ok THEN "updated" ELSE "raised",
          ud |-> IF reply_ok
                 THEN [ud EXCEPT !.editing_message = NoKey]
                 ELSE ud,
          mm |-> MessageManager_set(mm, ud.editing_message, text, write_ok).mm]
    ELSE [reply |-> "none", ud |-> ud, mm |-> mm]

\* UserDB.get_all_users: the records in the key order of the dict, here
\* their user_id
get_all_users(order) == [i \in DOMAIN order |-> [user_id |-> order[i]]]

\* the key order of the table us, which grew out of a table ordered as order
KeyOrder(order, us) ==
    LET new == DOMAIN us \ {order[i] : i \in DOMAIN order}
    IN  IF new = {} THEN order ELSE Append(order, CHOOSE k \in new : TRUE)

\* one pass of the loop of handle_broadcast_message over the user at i + 1:
\* the send, the count and, at every tenth success, the status edit, all
\* inside the try whose except counts a failure
broadcast_iteration(b, send_ok, edit_ok) ==
    LET user == b.users[b.i + 1]
        b1 == [b EXCEPT !.i = @ + 1, !.log = Append(@, user.user_id)]
    IN  IF ~send_ok
        THEN [b1 EXCEPT !.fail_count = @ + 1]
        ELSE LET b2 == [b1 EXCEPT !.success_count = @ + 1]
             IN  IF b2.success_count % STATUS_EVERY = 0 /\ ~edit_ok
                 THEN [b2 EXCEPT !.fail_count = @ + 1]
                 ELSE b2

(***************************************************************************)
(* The steps of the administration dialogue.  handle_broadcast_message is  *)
(* a coroutine: it is followed from await to await, and the handlers of    *)
(* the other users run between its steps.                                  *)
(***************************************************************************)
\* MessageManager as the pair of its dict and its file
MM == [messages |-> messages, file |-> msgfile]

\* handle_broadcast_message is between its first and its last await
InFlight == bc.pc \in {"await_status", "sending", "await_final"}

\* the coroutine after the loop: the flag is deleted and the final status
\* edit is awaited
AfterLoop(b) == [b EXCEPT !.pc = "await_final"]

\* a text of user_id is handled by handle_text: the head of handle_text and
\* the handler it passes the text to, up to that handler's first await;
\* handle_edit_message runs to its end, reply_ok being the outcome of its
\* reply_text
AdminText(user_id, text, write_ok, reply_ok) ==
    LET ud == user_data[user_id]
        route == handle_text_route(ud, text)
        e == handle_edit_message(ud, MM, user_id, text, write_ok, reply_ok)
        st == start(DB, user_id, <<"member", "member">>, now)
        menu == get_main_menu(DB, user_id, now)
    IN  /\ ~(InFlight /\ bc.owner = user_id)
        /\ last' = [op |-> "handle_text", u |-> str(user_id), text |-> text,
                    route |-> route, write_ok |-> write_ok,
                    reply_ok |-> reply_ok]
        /\ CASE route = "handle_broadcast_message" /\ text = "cancel" ->
                  /\ user_data' = [user_data EXCEPT
                                      ![user_id].awaiting_broadcast = FALSE]
                  /\ users' = menu.users
                  /\ disk' = menu.disk
                  /\ UNCHANGED <<inserted, messages, msgfile, bc>>
             [] route = "handle_broadcast_message" /\ text # "cancel" ->
                  /\ bc' = [NoBroadcast EXCEPT
                               !.pc = "await_status",
                               !.users = get_all_users(inserted),
                               !.owner = user_id]
                  /\ UNCHANGED <<users, disk, inserted, user_data, messages,
                                 msgfile>>
             [] route = "handle_edit_message" ->
                  /\ user_data' = [user_data EXCEPT ![user_id] = e.ud]
                  /\ messages' = e.mm.messages
                  /\ msgfile' = e.mm.file
                  /\ UNCHANGED <<users, disk, inserted, bc>>
             [] route = "start" ->
                  /\ users' = st.db.users
                  /\ disk' = st.db.disk
                  /\ inserted' = KeyOrder(inserted, st.db.users)
                  /\ UNCHANGED <<user_data, messages, msgfile, bc>>
             [] route = "admin_broadcast" ->
                  /\ user_data' = [user_data EXCEPT
                                      ![user_id] = admin_broadcast(ud, user_id)]
                  /\ UNCHANGED <<users, disk, inserted, messages, msgfile, bc>>
             [] OTHER ->
                  UNCHANGED <<users, disk, inserted, user_data, messages,
                              msgfile, bc>>
        /\ UNCHANGED <<now, verified, profile, boot>>
        /\ UNCHANGED loopvars

\* the reply "📢 Начинаю рассылку..." has been sent, or has failed, which
\* ends the handler with the exception; an empty snapshot skips the loop
BroadcastStatus(ok) ==
    /\ bc.pc = "await_status"
    /\ bc' = IF ~ok
             THEN [bc EXCEPT !.pc = "aborted", !.raised = TRUE]
             ELSE IF Len(bc.users) = 0
             THEN AfterLoop(bc)
             ELSE [bc EXCEPT !.pc = "sending"]
    /\ user_data' = IF ok /\ Len(bc.users) = 0
                    THEN [user_data EXCEPT
                             ![bc.owner].awaiting_broadcast = FALSE]
                    ELSE user_data
    /\ last' = [op |-> "handle_broadcast_message", u |-> str(bc.owner)]
    /\ UNCHANGED <<users, disk, now, verified, profile, boot, inserted,
                   messages, msgfile>>
    /\ UNCHANGED loopvars

\* one pass of the loop; after the last user the flag is deleted
BroadcastSend(send_ok, edit_ok) ==
    LET b == broadcast_iteration(bc, send_ok, edit_ok)
    IN  /\ bc.pc = "sending"
        /\ bc' = IF b.i = Len(b.users) THEN AfterLoop(b) ELSE b
        /\ user_data' = IF b.i = Len(b.users)
                        THEN [user_data EXCEPT
                                 ![bc.owner].awaiting_broadcast = FALSE]
                        ELSE user_data
        /\ last' = [op |-> "handle_broadcast_message", u |-> str(bc.owner)]
        /\ UNCHANGED <<users, disk, now, verified, profile, boot, inserted,
                       messages, msgfile>>
        /\ UNCHANGED loopvars

\* the final status "📢 Рассылка завершена" has been shown, or has failed
BroadcastFinal(ok) ==
    /\ bc.pc = "await_final"
    /\ bc' = [bc EXCEPT !.pc = "finished", !.raised = ~ok]
    /\ last' = [op |-> "handle_broadcast_message", u |-> str(bc.owner)]
    /\ UNCHANGED <<users, disk, now, verified, profile, boot, inserted,
                   user_data, messages, msgfile>>
    /\ UNCHANGED loopvars

\* /start of a user who is a member of the channels
Register(user_id) ==
    LET st == start(DB, user_id, <<"member", "member">>, now)
    IN  /\ users' = st.db.users
        /\ disk' = st.db.disk
        /\ inserted' = KeyOrder(inserted, st.db.users)
        /\ last' = [op |-> "start", u |-> str(user_id), reply |-> st.reply]
        /\ UNCHANGED <<now, verified, profile, boot, user_data, messages,
                       msgfile, bc>>
        /\ UNCHANGED loopvars

(***************************************************************************)
(* SpecBroadcast: users register one after the other while the admin       *)
(* starts, cancels and runs broadcasts.                                    *)
(***************************************************************************)
\* the number of users who register
MaxBroadcastUsers == 10

\* the id of the next user to register: the ids above those of the users
\* named so far, in increasing order
NextId == BYPASS_ID + 1 + Len(inserted)

BroadcastTexts == {"broadcast_button", "cancel", "hello"}

NextBroadcast ==
    \/ /\ Len(inserted) < MaxBroadcastUsers
       /\ Register(NextId)
    \/ \E text \in BroadcastTexts : AdminText(1, text, TRUE, TRUE)
    \/ \E ok \in BOOLEAN : BroadcastStatus(ok)
    \/ \E send_ok \in BOOLEAN, edit_ok \in BOOLEAN :
          BroadcastSend(send_ok, edit_ok)
    \/ \E ok \in BOOLEAN : BroadcastFinal(ok)

SpecBroadcast == Init /\ [][NextBroadcast]_vars

(***************************************************************************)
(* Properties of the broadcast, checked under SpecBroadcast                *)
(***************************************************************************)
\* the user ids of the snapshot, in its order
SnapshotIds == [i \in DOMAIN bc.users |-> bc.users[i].user_id]

\* C25 (broadcast never aborts): once the sending has begun, the users
\* attempted so far are the first users of the snapshot, each once and in
\* the snapshot's order, whatever sends have failed; when the loop is over
\* every user of the snapshot has been attempted and success_count +
\* fail_count is the size of the snapshot.
C25_BroadcastCompleteAsClaimed ==
    /\ bc.pc \in {"sending", "await_final", "finished"}
       => (/\ bc.i <= Len(bc.users)
           /\ bc.log = SubSeq(SnapshotIds, 1, bc.i))
    /\ bc.pc \in {"await_final", "finished"}
       => (/\ bc.log = SnapshotIds
           /\ bc.success_count + bc.fail_count = Len(bc.users))

(***************************************************************************)
(* SpecAdmin: the admin (user 1) and a user who is no admin (user 2) send  *)
(* the texts and commands of the administration dialogue.                  *)
(***************************************************************************)
AdminTexts ==
    {"broadcast_button", "cancel", "edit_start_message",
     "edit_select_spread", "back", "hello"}

\* admin_command: the /admin command, answered with the admin keyboard or
\* with the refusal
admin_command(user_id) ==
    IF str(user_id) \notin ADMIN_IDS THEN "no_access" ELSE "admin_panel"

AdminCommand(user_id) ==
    /\ ~(InFlight /\ bc.owner = user_id)
    /\ last' = [op |-> "admin_command", u |-> str(user_id),
                reply |-> admin_command(user_id)]
    /\ UNCHANGED <<users, disk, now, verified>>
    /\ UNCHANGED loopvars
    /\ UNCHANGED topicvars

NextAdmin ==
    \/ \E user_id \in UserIds, text \in AdminTexts, reply_ok \in BOOLEAN :
          AdminText(user_id, text, TRUE, reply_ok)
    \/ \E user_id \in UserIds : AdminCommand(user_id)
    \/ \E ok \in BOOLEAN : BroadcastStatus(ok)
    \/ \E send_ok \in BOOLEAN, edit_ok \in BOOLEAN :
          BroadcastSend(send_ok, edit_ok)
    \/ \E ok \in BOOLEAN : BroadcastFinal(ok)

SpecAdmin == Init /\ [][NextAdmin]_vars

(***************************************************************************)
(* Properties of the administration dialogue, checked under SpecAdmin      *)
(***************************************************************************)
\* the users outside ADMIN_IDS
NonAdmins == {user_id \in UserIds : str(user_id) \notin ADMIN_IDS}

C26_NoModalState ==
    /\ \A user_id \in NonAdmins :
          /\ ~user_data[user_id].awaiting_broadcast
          /\ user_data[user_id].editing_message = NoKey
    /\ bc.owner \notin NonAdmins

C26_Step ==
    (/\ last'.op \in {"handle_text", "admin_command"}
     /\ last'.u \in {str(user_id) : user_id \in NonAdmins})
    => (/\ messages' = messages
        /\ msgfile' = msgfile
        /\ bc' = bc)

\* C26 (admin-only modal states): a user outside ADMIN_IDS never has
\* awaiting_broadcast or editing_message set, never owns a broadcast, and no
\* text or command of such a user starts a broadcast or changes a template,
\* whatever texts are sent and in whatever order.
C26_AdminOnly == [](C26_NoModalState) /\ [][C26_Step]_vars

\* user 2, who is no admin, has just sent a template-selection label, which
\* handle_text passed to handle_edit_message, while the admin is editing a
\* template and another one has been changed
C26_Witness ==
    /\ last.op = "handle_text"
    /\ last.u = "2"
    /\ last.text \in EditLabels
    /\ last.route = "handle_edit_message"
    /\ user_data[1].editing_message # NoKey
    /\ DOMAIN messages # {}

(***************************************************************************)
(* main(): the start-up of the process and the retry loop around           *)
(* run_polling.  A sys.exit(1), and an exception that leaves main(), end   *)
(* the process with exit code 1; a return of main() ends it with 0.        *)
(***************************************************************************)
\* range(3): the attempts of the loop
POLL_ATTEMPTS == 3

\* the outcomes of one await app.run_polling(...)
PollOutcomes == {"returned", "Conflict", "Exception"}

\* the outcomes of the webhook check before the loop: no webhook is set, the
\* webhook was deleted, or one of the two calls raised (which is logged)
WebhookOutcomes == {"no_url", "deleted", "raised"}

\* the process has ended with the exit code
Exited(b, exit_code) == [b EXCEPT !.pc = "exited", !.exit_code = exit_code]

\* the loop going on to its next attempt without the for-else
next_attempt_unbounded(b) == [b EXCEPT !.pc = "polling", !.attempt = @ + 1]

\* the for statement taking its next value: after the last one the else
\* clause of the for runs sys.exit(1)
next_attempt(b) ==
    IF b.attempt + 1 < POLL_ATTEMPTS
    THEN [b EXCEPT !.pc = "polling", !.attempt = @ + 1]
    ELSE Exited(b, 1)

\* the body of the loop on one outcome of run_polling
poll(b, outcome) ==
    LET b1 == [b EXCEPT !.polls = Append(@, outcome)]
    IN  CASE outcome = "returned" -> Exited(b1, 0)
          [] outcome = "Conflict" -> [b1 EXCEPT !.pc = "deleting"]
          [] outcome = "Exception" ->
                IF b.attempt < 2
                THEN [b1 EXCEPT !.pc = "sleeping"]
                ELSE Exited(b1, 1)

\* main() up to the webhook check
MainStart(token) ==
    /\ boot.pc = "init"
    /\ boot' = IF ~token
               THEN Exited([boot EXCEPT !.token = FALSE], 1)
               ELSE [boot EXCEPT !.pc = "webhook"]
    /\ last' = [op |-> "main"]
    /\ UNCHANGED <<users, disk, now, verified, profile, adminvars>>
    /\ UNCHANGED loopvars

\* the webhook check, whose exceptions are caught
WebhookCheck(outcome) ==
    /\ boot.pc = "webhook"
    /\ boot' = [boot EXCEPT !.pc = "polling", !.webhook = outcome]
    /\ last' = [op |-> "main"]
    /\ UNCHANGED <<users, disk, now, verified, profile, adminvars>>
    /\ UNCHANGED loopvars

\* await app.run_polling(...) has returned or raised
RunPolling(outcome) ==
    /\ boot.pc = "polling"
    /\ boot' = poll(boot, outcome)
    /\ last' = [op |-> "main"]
    /\ UNCHANGED <<users, disk, now, verified, profile, adminvars>>
    /\ UNCHANGED loopvars

\* await app.bot.delete_webhook(...) in the Conflict branch: an exception
\* raised there is caught by nothing
DeleteWebhook(ok) ==
    /\ boot.pc = "deleting"
    /\ boot' = IF ok THEN [boot EXCEPT !.pc = "sleeping"] ELSE Exited(boot, 1)
    /\ last' = [op |-> "main"]
    /\ UNCHANGED <<users, disk, now, verified, profile, adminvars>>
    /\ UNCHANGED loopvars

\* await asyncio.sleep(2 ** attempt) is over
PollWake ==
    /\ boot.pc = "sleeping"
    /\ boot' = next_attempt(boot)
    /\ last' = [op |-> "main"]
    /\ UNCHANGED <<users, disk, now, verified, profile, adminvars>>
    /\ UNCHANGED loopvars

NextMain ==
    \/ \E token \in BOOLEAN : MainStart(token)
    \/ \E outcome \in WebhookOutcomes : WebhookCheck(outcome)
    \/ \E outcome \in PollOutcomes : RunPolling(outcome)
    \/ \E ok \in BOOLEAN : DeleteWebhook(ok)
    \/ PollWake

SpecMain == Init /\ [][NextMain]_vars

(***************************************************************************)
(* Properties of main(), checked under SpecMain                            *)
(***************************************************************************)
\* the attempts made so far have all failed
AllFailed(b) == \A i \in DOMAIN b.polls : b.polls[i] # "returned"

\* C27 (bounded polling): main() calls run_polling at most 3 times; a call
\* that returns is the last one and ends the process with 0; after three
\* failed calls, Conflict or other, no further call is made and the process
\* ends with exit code 1; without BOT_TOKEN the process ends with exit code 1
\* before any call.
C27_BoundedPolling ==
    /\ Len(boot.polls) <= POLL_ATTEMPTS
    /\ ~AllFailed(boot)
       => (/\ boot.polls[Len(boot.polls)] = "returned"
           /\ AllFailed([boot EXCEPT
                            !.polls = SubSeq(@, 1, Len(boot.polls) - 1)])
           /\ boot.pc = "exited"
           /\ boot.exit_code = 0)
    /\ (Len(boot.polls) = POLL_ATTEMPTS /\ AllFailed(boot))
       => (/\ boot.pc \in {"deleting", "sleeping", "exited"}
           /\ boot.pc = "exited" => boot.exit_code = 1)
    /\ ~boot.token
       => (/\ boot.pc = "exited"
           /\ boot.exit_code = 1
           /\ boot.polls = << >>)
    /\ boot.pc = "exited" <=> boot.exit_code # NoExit

\* the process has ended with exit code 1 after a conflict, another error
\* and a second conflict
C27_Witness ==
    /\ boot.pc = "exited"
    /\ boot.exit_code = 1
    /\ boot.polls = <<"Conflict", "Exception", "Conflict">>

(***************************************************************************)
(* SpecIO: the mutating methods of UserDB and MessageManager.set when the  *)
(* file cannot be written: open(..., 'w') raises and the file keeps its    *)
(* content.                                                                *)
(***************************************************************************)
\* the day the clock stops at under SpecIO
MaxIoTime == 4

\* UserDB._save with the outcome of the write: the exception of a failed
\* write leaves _save, which has no try
UserDB_save(db, write_ok) ==
    IF write_ok
    THEN [raised |-> FALSE, db |-> save(db)]
    ELSE [raised |-> TRUE, db |-> db]

\* the outcome of a method that, with its writes succeeding, turns db into
\* db1, when its one _save() has the outcome write_ok: what it assigned in
\* memory stays
saved_as(db, db1, write_ok) ==
    UserDB_save([users |-> db1.users, disk |-> db.disk], write_ok)

\* add_user with the outcome of its write; wrote tells whether _save ran
add_user_io(db, user_id, write_ok) ==
    IF str(user_id) \in DOMAIN db.users
    THEN [raised |-> FALSE, db |-> db, wrote |-> FALSE]
    ELSE [raised |-> ~write_ok,
          db |-> saved_as(db, add_user(db, user_id), write_ok).db,
          wrote |-> TRUE]

\* set_subscription with the outcome of its writes: for an unseen user the
\* exception leaves add_user, before the subscription is assigned
set_subscription_io(db, user_id, days, sub_type, t, write_ok) ==
    LET a == add_user_io(db, user_id, write_ok)
    IN  IF a.raised
        THEN a
        ELSE [raised |-> ~write_ok,
              db |-> saved_as(db,
                              set_subscription(db, user_id, days, sub_type, t),
                              write_ok).db,
              wrote |-> TRUE]

\* has_active_subscription with the outcome of the write of the flip
has_active_subscription_io(db, user_id, t, write_ok) ==
    LET h == has_active_subscription(db, user_id, t)
    IN  IF h.db = db
        THEN [raised |-> FALSE, db |-> db, wrote |-> FALSE]
        ELSE [raised |-> ~write_ok,
              db |-> saved_as(db, h.db, write_ok).db,
              wrote |-> TRUE]

\* the record of a call of a method of UserDB and of its outcome
IoLast(op, user_id, r, write_ok) ==
    [op |-> op, u |-> str(user_id), write_ok |-> write_ok,
     wrote |-> r.wrote, raised |-> r.raised]

IoAddUser(user_id, write_ok) ==
    LET r == add_user_io(DB, user_id, write_ok)
    IN  /\ users' = r.db.users
        /\ disk' = r.db.disk
        /\ last' = IoLast("add_user", user_id, r, write_ok)
        /\ UNCHANGED <<now, verified>>
        /\ UNCHANGED loopvars
        /\ UNCHANGED topicvars

IoSetSubscription(user_id, write_ok) ==
    LET r == set_subscription_io(DB, user_id, TRIAL_DAYS, "trial", now,
                                 write_ok)
    IN  /\ users' = r.db.users
        /\ disk' = r.db.disk
        /\ last' = IoLast("set_subscription", user_id, r, write_ok)
        /\ UNCHANGED <<now, verified>>
        /\ UNCHANGED loopvars
        /\ UNCHANGED topicvars

IoHasActiveSubscription(user_id, write_ok) ==
    LET r == has_active_subscription_io(DB, user_id, now, write_ok)
    IN  /\ users' = r.db.users
        /\ disk' = r.db.disk
        /\ last' = IoLast("has_active_subscription", user_id, r, write_ok)
        /\ UNCHANGED <<now, verified>>
        /\ UNCHANGED loopvars
        /\ UNCHANGED topicvars

\* the texts of the admin under SpecIO: a template is selected and edited
IoTexts == {"edit_start_message", "hello", "cancel"}

NextIO ==
    \/ TickTo(MaxIoTime)
    \/ \E user_id \in ExpiryUsers, write_ok \in BOOLEAN :
          IoAddUser(user_id, write_ok)
    \/ \E user_id \in ExpiryUsers, write_ok \in BOOLEAN :
          IoSetSubscription(user_id, write_ok)
    \/ \E user_id \in ExpiryUsers, write_ok \in BOOLEAN :
          IoHasActiveSubscription(user_id, write_ok)
    \/ \E text \in IoTexts, write_ok \in BOOLEAN :
          AdminText(1, text, write_ok, TRUE)

SpecIO == Init /\ [][NextIO]_vars

(***************************************************************************)
(* Properties of the writes, checked under SpecIO                          *)
(***************************************************************************)
\* the step just taken is a text of the admin that handle_edit_message
\* stored with MessageManager.set
SetCalled ==
    /\ last'.op = "handle_text"
    /\ last'.route = "handle_edit_message"
    /\ last'.u \in ADMIN_IDS
    /\ last'.text \notin EditLabels

C28_Step ==
    /\ (/\ last'.op \in {"add_user", "set_subscription",
                         "has_active_subscription"}
        /\ last'.wrote
        /\ ~last'.write_ok)
       => last'.raised
    /\ (SetCalled /\ ~last'.write_ok)
       => MessageManager_set(MM, user_data[1].editing_message, last'.text,
                             last'.write_ok).raised

\* C28 (write failure is never silent): when the write of the file fails
\* during add_user, set_subscription, the flip of has_active_subscription or
\* MessageManager.set, the method raises to its caller; it never returns
\* normally with the mutation made in memory and missing from the file.
C28_WriteFailureSurfacesAsClaimed == [][C28_Step]_vars

(***************************************************************************)
(* Origin of the paid subscriptions, checked under Spec                    *)
(***************************************************************************)
\* k's record holds a paid subscription, running or not
IsPaid(us, k) == k \in DOMAIN us /\ Sub(us, k).type = "paid"

\* the step just taken is a payment callback with a confirmed state and a
\* catalog amount for user k, answered 200 OK
PaidCallbackFor(k) ==
    /\ last'.op = "handle_callback"
    /\ payment_confirmed(last'.data.state)
    /\ \E plan_id \in PlanIds :
          amount_rub_equals(last'.data.amount,
                            SUBSCRIPTION_PLANS[plan_id].price)
    /\ last'.data.user_id \in IntStrings
    /\ str(int(last'.data.user_id)) = k
    /\ last'.resp = Response(200, "OK")

C29_Step ==
    \A k \in DOMAIN users' :
        (\/ IsPaid(users', k) /\ ~IsPaid(users, k)
         \/ /\ IsPaid(users', k) /\ Sub(users', k).active
            /\ ~(IsPaid(users, k) /\ Sub(users, k).active))
        => PaidCallbackFor(k)

\* C29 (paid only by callback): a record gets type = paid, and a paid record
\* gets active = true, only in a step in which handle_callback processed a
\* confirmed callback with a catalog amount for that user; no command,
\* button press or text of a user does it.
C29_PaidOnlyByCallback == [][C29_Step]_vars

\* user 1, who has no record, has just pressed a plan button and got the
\* payment link, while user 2 holds the paid subscription of a callback
C29_Witness ==
    /\ last.op = "handle_text"
    /\ last.u = "1"
    /\ last.reply = "payment_link"
    /\ "1" \notin DOMAIN users
    /\ IsPaid(users, "2")
    /\ Sub(users, "2").active

(***************************************************************************)
(* SpecTrial: the trial button pressed over and over, with two updates of  *)
(* user 1 in flight at once, between payment callbacks and days passing.   *)
(***************************************************************************)
\* the slots of the updates of a user
SlotsOf(user_id) == IF user_id = 1 THEN {"1", "1b"} ELSE {str(user_id)}

\* the key of the user whose update a slot holds
SlotUser(slot) == IF slot = "1b" THEN "1" ELSE slot

NextTrial ==
    \/ LoopTick
    \/ \E user_id \in UserIds :
          \E slot \in SlotsOf(user_id) : DispatchTrialIn(slot, user_id)
    \/ \E user_id \in UserIds :
          \E slot \in SlotsOf(user_id) : ResumeTrialNotifyIn(slot, user_id)
    \/ \E slot \in TaskSlots : ResumeReply(slot)
    \/ \E data \in BotBodies : DispatchCallback(data)
    \/ ResumeJson

SpecTrial == Init /\ [][NextTrial]_vars

(***************************************************************************)
(* Properties of the trial button, checked under SpecTrial                 *)
(***************************************************************************)
\* the step just taken handled a press of the trial button in the slot, up
\* to the first await of handle_text
TrialPressedIn(slot) ==
    /\ tasks[slot].pc = "idle"
    /\ tasks'[slot].pc # "idle"
    /\ tasks'[slot].kind = "trial"

\* the step just taken left k with a running trial that k did not hold, or
\* that started at another time
TrialWritten(k) ==
    /\ Sub(users', k).type = "trial"
    /\ Sub(users', k).active
    /\ \/ k \notin DOMAIN users
       \/ Sub(users, k).type # "trial"
       \/ ~Sub(users, k).active
       \/ Sub(users, k).start_date # Sub(users', k).start_date

C30_Step ==
    /\ \A slot \in TaskSlots \ {"callback"} :
          TrialPressedIn(slot)
          => IF TrialUsed(users, SlotUser(slot))
             THEN /\ tasks'[slot].pc = "await_reply"
                  /\ users' = users
                  /\ disk' = disk
             ELSE /\ tasks'[slot].pc = "await_notify"
                  /\ TrialUsed(users', SlotUser(slot))
                  /\ Sub(users', SlotUser(slot)).type = "trial"
                  /\ Sub(users', SlotUser(slot)).start_date = now
    /\ \A k \in DOMAIN users : TrialUsed(users, k) => TrialUsed(users', k)
    /\ \A k \in DOMAIN users' :
          TrialWritten(k)
          => (/\ ~TrialUsed(users, k)
              /\ \E slot \in TaskSlots \ {"callback"} :
                    SlotUser(slot) = k /\ TrialPressedIn(slot))

\* C30 (one trial per user): in every interleaving of the handlers, a press
\* of the trial button runs set_subscription(..., 'trial') only when
\* trial_used is false, and sets it in the same step; a press with
\* trial_used true is answered "already used" and leaves the table
\* unchanged; trial_used is never cleared.  So the trial is activated at
\* most once per user.
C30_TrialAtMostOnce == [][C30_Step]_vars

\* a second press of user 1 has been answered "already used" while the
\* first press still waits for its notification to be sent
C30_Witness ==
    /\ tasks["1"] = Task("await_notify", "trial", 0)
    /\ tasks["1b"] = Task("await_reply", "trial", 0)
    /\ TrialUsed(users, "1")
    /\ Sub(users, "1").active

\* the step just taken handled a press of the trial button by a user whose
\* trial_used was false (an unseen user included)
C31_Step ==
    \A slot \in TaskSlots \ {"callback"} :
       (TrialPressedIn(slot) /\ ~TrialUsed(users, SlotUser(slot)))
       => /\ tasks'[slot].pc = "await_notify"
          /\ Sub(users', SlotUser(slot)) =
                [active |-> TRUE, expires |-> now + TRIAL_DAYS,
                 type |-> "trial", start_date |-> now, trial_used |-> TRUE]
          /\ Sub(disk', SlotUser(slot)) = Sub(users', SlotUser(slot))

\* C31 (the trial does not look at the subscription held): a press of the
\* trial button by a user whose trial_used is false is accepted whatever
\* the record holds, a running paid subscription included, and leaves the
\* record with type = trial, start_date = now and expires = now + 3 days;
\* what was left of a paid period is gone.
C31_TrialReplacesSubscription == [][C31_Step]_vars

\* the month paid for user 1 (expires 30 days after the payment, the reply
\* to the payment system still to be sent) has been replaced by a trial
\* that ends in 3 days; no other user has a record
C31_Witness ==
    /\ tasks["callback"] = Task("await_reply", "handle_callback", 0)
    /\ tasks["1"] = Task("await_notify", "trial", 0)
    /\ DOMAIN users = {"1"}
    /\ Sub(users, "1").type = "trial"
    /\ Sub(users, "1").active
    /\ Sub(users, "1").expires = now + TRIAL_DAYS

(***************************************************************************)
(* Frame of the read methods of UserDB, checked under SpecDB               *)
(***************************************************************************)
\* table t1 is table t0 with at most the active flag of k taken from True
\* to False
FlagClearedAtMost(t1, t0, k) ==
    /\ DOMAIN t1 = DOMAIN t0
    /\ \A j \in DOMAIN t0 : j # k => t1[j] = t0[j]
    /\ k \in DOMAIN t0
       => \/ t1[k] = t0[k]
          \/ /\ Sub(t0, k).active
             /\ t1[k] = [t0[k] EXCEPT !.subscription.active = FALSE]

C32_Step ==
    /\ last'.op \in {"get_expiry", "get_subscription_start"}
       => (users' = users /\ disk' = disk)
    /\ last'.op = "has_active_subscription"
       => /\ FlagClearedAtMost(users', users, last'.u)
          /\ disk' = disk \/ disk' = users'

\* C32 (frame of the reads): get_expiry and get_subscription_start leave
\* the table and the file as they are; has_active_subscription creates no
\* record, leaves every other user's record as it is, and changes at most
\* the active flag of the user asked about, from True to False, with
\* expires, type, start_date and trial_used kept.
C32_ReadFrame == [][C32_Step]_vars

\* has_active_subscription has just flipped the expired trial of a user
\* while the other user holds a running subscription: the flipped record
\* keeps its dates, its type and trial_used
C32_Witness ==
    /\ last.op = "has_active_subscription"
    /\ last.was_active
    /\ ~last.ret
    /\ Sub(users, last.u) =
          [active |-> FALSE, expires |-> TRIAL_DAYS, type |-> "trial",
           start_date |-> 0, trial_used |-> TRUE]
    /\ \E k \in DOMAIN users \ {last.u} : Sub(users, k).active

(***************************************************************************)
(* Expiry until re-activation, checked under SpecDB                        *)
(***************************************************************************)
\* table us holds nothing that has_active_subscription(k) accepts: no
\* record of k, or one whose active flag is False
Refused(us, k) == k \notin DOMAIN us \/ ~Sub(us, k).active

\* the step just taken ran set_subscription for k, called directly (as the
\* trial command does) or by a PAYED callback
Reactivation(k) ==
    \/ last'.op = "set_subscription" /\ last'.u = k
    \/ /\ last'.op = "handle_callback"
       /\ last'.resp = Response(200, "OK")
       /\ last'.data.user_id \in IntStrings
       /\ str(int(last'.data.user_id)) = k

\* the step just taken was has_active_subscription(k) returning ret
Answered(k, ret) ==
    /\ last'.op = "has_active_subscription"
    /\ last'.u = k
    /\ last'.ret = ret

C33_Step ==
    \A user_id \in UserIds :
       /\ Answered(str(user_id), FALSE) => Refused(users', str(user_id))
       /\ (Refused(users, str(user_id)) /\ ~Reactivation(str(user_id)))
          => /\ Refused(users', str(user_id))
             /\ ~Answered(str(user_id), TRUE)

\* C33 (expiry lasts until re-activation): a call of
\* has_active_subscription(u) that returns False leaves u without a record
\* or with active = False; from such a table every step that is not a
\* set_subscription for u (direct or by a PAYED callback) leaves u so, and
\* no call of has_active_subscription(u) returns True.  With the clock only
\* moving forward, the answer stays False until the next activation of u.
C33_ExpiredUntilReactivated == [][C33_Step]_vars

\* has_active_subscription is asked again, a day or more after the trial
\* ended and after an earlier call flipped it, and answers False
C33_Witness ==
    /\ last.op = "has_active_subscription"
    /\ ~last.was_active
    /\ ~last.ret
    /\ last.u \in DOMAIN users
    /\ Sub(users, last.u).type = "trial"
    /\ Sub(users, last.u).expires < now
    /\ ~Sub(users, last.u).active

(***************************************************************************)
(* SpecNotify: handle_callback as a coroutine split at its two awaits      *)
(* (request.json() and the bot.send_message of the notification), with the *)
(* outcome of the send, while users press the trial button and days pass.  *)
(***************************************************************************)
\* POST /callback arrives: handle_callback runs up to await request.json()
NotifyDispatch(data) ==
    /\ CanDispatch("callback")
    /\ tasks' = [tasks EXCEPT
                    !["callback"] = Task("await_json", "handle_callback", data)]
    /\ UNCHANGED <<users, disk, now, verified, last, blocked, expected>>
    /\ UNCHANGED topicvars

\* the body was read: a refused body is answered at once; for an accepted
\* one set_subscription, get_expiry and get_main_menu have run when the
\* coroutine stops at await bot.send_message
NotifyJson ==
    LET data == tasks["callback"].arg
        r == handle_callback(DB, data, now, TRUE)
        accepted == r.resp = Response(200, "OK")
    IN  /\ CanResume("callback", "await_json", "handle_callback")
        /\ users' = r.db.users
        /\ disk' = r.db.disk
        /\ tasks' = [tasks EXCEPT !["callback"] =
                        IF accepted
                        THEN Task("await_send", "handle_callback", data)
                        ELSE Idle]
        /\ last' = IF accepted
                   THEN last
                   ELSE [op |-> "handle_callback", data |-> data,
                         resp |-> r.resp, sent |-> FALSE]
        /\ expected' = IF accepted THEN r.db.users ELSE expected
        /\ UNCHANGED <<now, verified, blocked>>
        /\ UNCHANGED topicvars

\* bot.send_message has completed or failed: the log line, then the response
NotifySent(send_ok) ==
    LET n == send_message_guarded(send_ok)
    IN  /\ CanResume("callback", "await_send", "handle_callback")
        /\ tasks' = [tasks EXCEPT !["callback"] = Idle]
        /\ last' = [op |-> "handle_callback", data |-> tasks["callback"].arg,
                    resp |-> callback_tail(n), sent |-> n.sent]
        /\ UNCHANGED <<users, disk, now, verified, blocked, expected>>
        /\ UNCHANGED topicvars

NextNotify ==
    \/ LoopTick
    \/ \E data \in BotBodies : NotifyDispatch(data)
    \/ NotifyJson
    \/ \E send_ok \in BOOLEAN : NotifySent(send_ok)
    \/ \E user_id \in UserIds : DispatchTrial(user_id)
    \/ \E user_id \in UserIds : ResumeTrialNotify(user_id)
    \/ \E user_id \in UserIds : ResumeReply(str(user_id))

SpecNotify == Init /\ [][NextNotify]_vars

(***************************************************************************)
(* Order of activation, notification and response, under SpecNotify        *)
(***************************************************************************)
\* the coroutine of the callback waits for bot.send_message
Sending(ts) == ts["callback"].pc = "await_send"

\* the step just taken produced the response resp of handle_callback
Responded(resp) ==
    /\ tasks["callback"].pc # "idle"
    /\ tasks'["callback"].pc = "idle"
    /\ last'.op = "handle_callback"
    /\ last'.resp = resp

C34_Step ==
    /\ (~Sending(tasks) /\ Sending(tasks'))
       => LET data == tasks'["callback"].arg
          IN  /\ Sub(users', str(int(data.user_id))).active
              /\ Sub(users', str(int(data.user_id))).type = "paid"
              /\ Sub(users', str(int(data.user_id))).start_date = now
              /\ Sub(users', str(int(data.user_id))).expires
                    = now + DaysOfAmount(data.amount)
              /\ disk' = users'
    /\ Responded(Response(200, "OK"))
       => (Sending(tasks) /\ users' = users /\ disk' = disk)
    /\ (Sending(tasks) /\ ~Sending(tasks'))
       => Responded(Response(200, "OK"))

\* C34 (activation, then notification, then response): the coroutine of
\* handle_callback reaches the await of bot.send_message only with the paid
\* subscription written to the table and to the file; the response 200 "OK"
\* is produced only from that await, so it implies the activation; and
\* whether the send succeeds or fails, the step that follows it answers
\* 200 "OK" and leaves the table and the file as they are.
C34_ActivationBeforeResponse == [][C34_Step]_vars

\* the notification of the month paid for user 1 could not be delivered:
\* the callback was answered 200 "OK" and the subscription is running
C34_Witness ==
    /\ last.op = "handle_callback"
    /\ last.resp = Response(200, "OK")
    /\ ~last.sent
    /\ last.data.user_id = "1"
    /\ tasks["callback"].pc = "idle"
    /\ Sub(users, "1").active
    /\ Sub(users, "1").type = "paid"
    /\ Sub(disk, "1").active

(***************************************************************************)
(* The message-edit sub-state, checked under SpecAdmin                     *)
(***************************************************************************)
\* the admins among the users of the model
Admins == {user_id \in UserIds : str(user_id) \in ADMIN_IDS}

\* the step just taken handled a text of user_id that is none of the three
\* template-selection labels, received while user_id was editing a template
TextWhileEditing(user_id) ==
    /\ user_data[user_id].editing_message # NoKey
    /\ last'.op = "handle_text"
    /\ last'.u = str(user_id)
    /\ last'.text \notin EditLabels

C35_Step ==
    \A user_id \in Admins :
       TextWhileEditing(user_id)
       => /\ last'.route = "handle_edit_message"
          /\ user_data[user_id].editing_message \in DOMAIN messages'
          /\ messages'[user_data[user_id].editing_message] = last'.text
          /\ user_data'[user_id].editing_message = NoKey

\* C35 (message-edit sub-state): while an admin has editing_message set, the
\* next text that is none of the three template-selection labels, the Back
\* label included, is passed to handle_edit_message, becomes the text of
\* the template being edited, and editing_message is cleared.
C35_EditConsumesNextTextAsClaimed == [][C35_Step]_vars

====
